---- MODULE Spec2Model ----
(***************************************************************************)
(* A model of CalibBoardStitcherUI: the workflow object of                 *)
(* src/Workflow/MainWorkflow.py (admission gate, worker tasks, callbacks)  *)
(* and the part of the Qt front end of src/QtUI it talks to (sub-image     *)
(* items, their status and matched points, the queue of signals that the   *)
(* UI thread delivers).                                                    *)
(*                                                                         *)
(* Threads: the UI thread (button clicks, image selection, dragging of a   *)
(* matched point, delivery of queued signals), the workflow's main thread  *)
(* (_main) and the worker threads started by _try_load_task.  A handler    *)
(* of the UI thread is one action; a worker task is a sequence of steps,   *)
(* cut where it reads or writes state shared with the UI thread.           *)
(*                                                                         *)
(* The engine package CalibBoardStitcher (Stitcher, CalibResult,           *)
(* CalibBoardObj, BoardGenerator) is imported by the sources and is not    *)
(* part of them: its operations are modelled from the specification.       *)
(***************************************************************************)
EXTENDS Integers, Sequences, FiniteSets, TLC

\* ------------------------------------------------------------------ bounds
\* worker threads that can exist at the same time (slots of the model)
MaxThreads == 2
\* signals that may wait in the UI thread's event queue
MaxQueue == 2
\* matched points the user drags during a session
MaxDrags == 1
\* tasks the user gets started during a session
MaxTasks == 2
\* images stitched by one stitch_and_save_img job (canvas arithmetic)
MaxBoxes == 2
\* largest row and column count of a board whose generation is followed
MaxCount == 3
\* points added to a CalibResult whose save and load are followed
MaxPoints == 3
\* calls of set_matched_points, and of the add-point handler, that are followed
MaxSets == 2
\* calls of CalibBoardStitcherUI methods one task makes, when the locks are followed
MaxCalls == 2

\* the image files of the session (file names are the image ids)
Imgs == {"a.png", "b.png"}
\* the order in which the files were registered
ImgOrder == <<"a.png", "b.png">>
\* how many decodable QR codes the image files show, in the folders tried
QrInputs ==
    { [x \in Imgs |-> 0],
      [x \in Imgs |-> IF x = "a.png" THEN 1 ELSE 3],
      [x \in Imgs |-> 3] }

\* ------------------------------------------------------------------ values
None == [none |-> TRUE]

\* ButtonClickedEvent, src/QtUI/CalibBoardStitcherUI.py
GEN_AND_SAVE_CALIB_BOARD_BTN_CLICKED == "GEN_AND_SAVE_CALIB_BOARD_BTN_CLICKED"
LOAD_SUB_IMG_SEQ_BTN_CLICKED == "LOAD_SUB_IMG_SEQ_BTN_CLICKED"
IMPORT_CALIB_RESULT_BTN_CLICKED == "IMPORT_CALIB_RESULT_BTN_CLICKED"
CLEAR_CALIB_RESULT_BTN_CLICKED == "CLEAR_CALIB_RESULT_BTN_CLICKED"
GEN_CALIB_BOARD_BTN_CLICKED == "GEN_CALIB_BOARD_BTN_CLICKED"
SAVE_CALIB_RESULT_BUTTON == "SAVE_CALIB_RESULT_BUTTON"
GEN_STITCHED_IMG_BTN_CLICKED == "GEN_STITCHED_IMG_BTN_CLICKED"

ButtonClickedEvent ==
    { GEN_AND_SAVE_CALIB_BOARD_BTN_CLICKED, LOAD_SUB_IMG_SEQ_BTN_CLICKED,
      IMPORT_CALIB_RESULT_BTN_CLICKED, CLEAR_CALIB_RESULT_BTN_CLICKED,
      GEN_CALIB_BOARD_BTN_CLICKED, SAVE_CALIB_RESULT_BUTTON,
      GEN_STITCHED_IMG_BTN_CLICKED }

\* CalibDataSource
DETECT_QR_CODE == "DETECT_QR_CODE"
DETECT_CEIL_BOX == "DETECT_CEIL_BOX"
IMPORT_FROM_FILE == "IMPORT_FROM_FILE"
CalibDataSource == {DETECT_QR_CODE, DETECT_CEIL_BOX, IMPORT_FROM_FILE}

\* SubImageStatus, src/QtUI/SubImage.py (HIDE is a reserved word of TLA+)
STATUS_HIDE == "HIDE"
SHOW_ORIGINAL_LOCKED == "SHOW_ORIGINAL_LOCKED"
SHOW_ORIGINAL_MOVABLE == "SHOW_ORIGINAL_MOVABLE"
SHOW_TRANSFORMED_LOCKED == "SHOW_TRANSFORMED_LOCKED"
SHOW_TRANSFORMED_MOVABLE == "SHOW_TRANSFORMED_MOVABLE"
SubImageStatus ==
    { STATUS_HIDE, SHOW_ORIGINAL_LOCKED, SHOW_ORIGINAL_MOVABLE,
      SHOW_TRANSFORMED_LOCKED, SHOW_TRANSFORMED_MOVABLE }

\* ------------------------------------------------------------------ state
VARIABLES
    main_pc,            \* _main: 0 = started, 1 = in its wait loop, 2 = ended
    app_running,        \* app.exec() has not returned
    stop_event,         \* threading.Event of main()
    btn_clicked_cb_map, \* CalibBoardStitcherUI._btn_clicked_cb_map (its keys)
    task_mutex,         \* MainWorkflow._task_mutex is held
    task_name,          \* MainWorkflow._task_name
    threads,            \* the worker threads: slot -> position and locals of its task
    stitcher,           \* MainWorkflow._stitcher: None or the board it is bound to
    sub_image_infos,    \* MainWorkflow._sub_image_infos: its keys in insertion order
    board_img,          \* MainWorkflow._board_img: None or the board it shows
    saved_file,         \* the calibration file written by _save_matched_points
    sub_image_items,    \* CalibBoardStitcherUI._sub_image_items: id -> SubImage
    ui_queue,           \* queued signals the UI thread has not delivered yet
    matched_points_changed_callback, \* CalibBoardStitcherUI._matched_points_changed_callback is set
    qr,                 \* input: the number of decodable QR codes of each image file
    drags,              \* input: matched points dragged so far
    started,            \* input: tasks started so far
    calc,               \* the locals of stitch_and_save_img's canvas arithmetic
    holder,             \* history: task_name given at the admission that took the gate
    step                \* history: what the last step did (handler result, warning,
                        \* engine call, exception)

MainVars == << main_pc, app_running, stop_event, btn_clicked_cb_map >>
GateVars == << task_mutex, task_name, holder >>
WorkflowVars == << stitcher, sub_image_infos, board_img, saved_file >>
UiVars == << sub_image_items, ui_queue, matched_points_changed_callback >>
InputVars == << qr, drags, started, calc >>

vars == << MainVars, GateVars, threads, WorkflowVars, UiVars, InputVars, step >>

\* ------------------------------------------------------------------ engine
\* The board printed for the session: the geometry every QR code encodes.
BoardObj == [row_count |-> 2, col_count |-> 2, qr_pixel_size |-> 1, qr_border |-> 1]

MatchedPoint(img_id, cb_point, img_point) ==
    [img_id |-> img_id, cb_point |-> cb_point, img_point |-> img_point]

\* a mapping that steps by the margin alone
cell_to_board_point_margin_only(board, row, col) ==
    << board.qr_border + col * board.qr_border,
       board.qr_border + row * board.qr_border >>

\* BoardGeometry.cell_to_board_point
cell_to_board_point(board, row, col) ==
    << board.qr_border + col * (board.qr_pixel_size + board.qr_border),
       board.qr_border + row * (board.qr_pixel_size + board.qr_border) >>

\* the cell printed in the k-th QR code an image shows, and its centroid
QrCell(k) == << (k - 1) \div BoardObj.col_count, (k - 1) % BoardObj.col_count >>
QrCentroid(k) == << 10 * QrCell(k)[2] + 5, 10 * QrCell(k)[1] + 5 >>

\* Stitcher.match(img, img_id): one point per decodable code, none is no error
Match(board, img_id, codes) ==
    [k \in 1..codes |->
        MatchedPoint(img_id, cell_to_board_point(board, QrCell(k)[1], QrCell(k)[2]),
                     QrCentroid(k))]

\* Stitcher.from_qr_img(img): a stitcher when a code decodes, else none
from_qr_img(codes) == IF codes > 0 THEN BoardObj ELSE None

Cross(p, q, r) ==
    (q[1] - p[1]) * (r[2] - p[2]) - (q[2] - p[2]) * (r[1] - p[1])

Collinear(ps) ==
    \A i, j, k \in 1..Len(ps) : Cross(ps[i], ps[j], ps[k]) = 0

\* an estimation that only counts the correspondences
Estimate_count_only(matched_points) ==
    IF Len(matched_points) < 3 THEN "InsufficientMatchedPoints" ELSE "ok"

\* TransformEstimator: what estimating the transform of a point list gives
Estimate(matched_points) ==
    IF Len(matched_points) < 3 THEN "InsufficientMatchedPoints"
    ELSE IF \/ Collinear([k \in 1..Len(matched_points) |-> matched_points[k].img_point])
            \/ Collinear([k \in 1..Len(matched_points) |-> matched_points[k].cb_point])
         THEN "DegenerateGeometry"
         ELSE "ok"

\* CalibResult(board_obj): no points yet
CalibResult(board_obj) == [board |-> board_obj, ids |-> << >>, points |-> [x \in {} |-> << >>]]

\* an add_matched_point that puts the new point first
add_matched_point_front(cr, p) ==
    IF p.img_id \in DOMAIN cr.points
    THEN [cr EXCEPT !.points[p.img_id] = << p >> \o @]
    ELSE [cr EXCEPT !.ids = Append(@, p.img_id),
                    !.points = [x \in DOMAIN cr.points \cup {p.img_id} |->
                                   IF x = p.img_id THEN << p >> ELSE cr.points[x]]]

\* CalibResult.add_matched_point: append to the list keyed by the point's img_id
add_matched_point(cr, p) ==
    IF p.img_id \in DOMAIN cr.points
    THEN [cr EXCEPT !.points[p.img_id] = Append(@, p)]
    ELSE [cr EXCEPT !.ids = Append(@, p.img_id),
                    !.points = [x \in DOMAIN cr.points \cup {p.img_id} |->
                                   IF x = p.img_id THEN << p >> ELSE cr.points[x]]]

RECURSIVE add_matched_points(_, _)
add_matched_points(cr, ps) ==
    IF ps = << >> THEN cr
    ELSE add_matched_points(add_matched_point(cr, Head(ps)), Tail(ps))

\* CalibResult.get_matched_points: empty when none recorded
get_matched_points(cr, img_id) ==
    IF img_id \in DOMAIN cr.points THEN cr.points[img_id] ELSE << >>

\* CalibResult.get_matched_img_id: the ids holding at least one point
get_matched_img_id(cr) == cr.ids

\* CalibBoardObj(...): InvalidGeometry on bad board parameters
ValidGeometry(board) ==
    /\ board.row_count >= 1
    /\ board.col_count >= 1
    /\ board.qr_pixel_size > 0
    /\ board.qr_border >= 0

\* the engine's results are functions of their arguments and nothing else
WrappedBox(img, matched_points, scale) ==
    [box_of |-> matched_points, scale |-> scale, img |-> img]
WrappedPartial(img, matched_points, scale) ==
    [partial_of |-> matched_points, scale |-> scale, img |-> img]
BoxLt(box) == [lt_of |-> box]
calc_mean_sub_img_scale(cr) == [scale_of |-> cr.points]

\* ------------------------------------------------------------------ history
\* what one step did: the result of the button handler it ran, the warning it
\* logged, the task_name it was asked to start, the engine call it made, the
\* exception raised in it
Nothing == [ret |-> "none", warned |-> "", asked |-> "", call |-> "none", n |-> 0,
            thread |-> "none", exc |-> "none", at |-> "none", i |-> 0, of |-> 0,
            cb |-> << >>]

Clicked(result, warning, asked) ==
    [Nothing EXCEPT !.ret = result, !.warned = warning, !.asked = asked]

\* an engine call on matched_points by a thread ("worker" or "ui"), and how it
\* ended: at step `at`, for the i-th of `of` images
EngineCall(fn, matched_points, thread, result, at, i, of) ==
    [Nothing EXCEPT !.call = fn, !.n = Len(matched_points), !.thread = thread,
                    !.exc = IF result = "ok" THEN "none" ELSE result,
                    !.at = at, !.i = i, !.of = of]

Raised(exc, thread, at, i, of) ==
    [Nothing EXCEPT !.exc = exc, !.thread = thread, !.at = at, !.i = i, !.of = of]

\* a step that invokes no callback
CalledNever(s, img_id, matched_points) == s

\* CalibBoardStitcherUI._matched_points_changed(img_id, matched_points) with a
\* callback registered: the step invoked it with these arguments
Called(s, img_id, matched_points) ==
    [s EXCEPT !.cb = Append(@, << img_id, matched_points >>)]

\* ------------------------------------------------------------------ threads
Slots == 1..MaxThreads
Idle == [pc |-> "idle"]
\* task() has returned: _do_task is about to release the gate
Returned == [pc |-> "returned"]

Running(t) == threads[t] # Idle
FreeSlots == {t \in Slots : ~Running(t)}
Pc(t) == threads[t].pc

\* the thread goes on at `next`; the thread ends with an exception, so that
\* _do_task never reaches release()
Goes(t, next) == threads' = [threads EXCEPT ![t] = next]
Dies(t) == threads' = [threads EXCEPT ![t] = Idle]

\* the task names of _main
TaskNameOf(event) ==
    CASE event = GEN_AND_SAVE_CALIB_BOARD_BTN_CLICKED -> "Generate CalibBoard image task"
      [] event = LOAD_SUB_IMG_SEQ_BTN_CLICKED -> "Load sub image sequence task"
      [] event = IMPORT_CALIB_RESULT_BTN_CLICKED -> "Save calibration result task"
      [] event = SAVE_CALIB_RESULT_BUTTON -> "Save calibration result task"
      [] event = GEN_STITCHED_IMG_BTN_CLICKED -> "Stitch and save img"

\* the first step of the task each callback of _main hands to _try_load_task
TaskOf(event) ==
    CASE event = GEN_AND_SAVE_CALIB_BOARD_BTN_CLICKED -> [pc |-> "gen"]
      [] event = LOAD_SUB_IMG_SEQ_BTN_CLICKED -> [pc |-> "load_dialog"]
      [] event = IMPORT_CALIB_RESULT_BTN_CLICKED -> [pc |-> "import"]
      [] event = SAVE_CALIB_RESULT_BUTTON -> [pc |-> "save_dialog"]
      [] event = GEN_STITCHED_IMG_BTN_CLICKED -> [pc |-> "stitch"]

\* the order in which _main registers its callbacks
RegisterOrder ==
    << GEN_AND_SAVE_CALIB_BOARD_BTN_CLICKED, LOAD_SUB_IMG_SEQ_BTN_CLICKED,
       IMPORT_CALIB_RESULT_BTN_CLICKED, GEN_CALIB_BOARD_BTN_CLICKED,
       SAVE_CALIB_RESULT_BUTTON, GEN_STITCHED_IMG_BTN_CLICKED >>

\* ------------------------------------------------------------------ the gate
\* self._task_mutex.acquire(blocking=False): taken only when free
AcquireAlways == TRUE
mutex_acquire == ~task_mutex

\* a _try_load_task that stores task_name before it has the gate
try_load_task_names_caller(task, name) ==
    /\ FreeSlots # {}
    /\ IF mutex_acquire
       THEN /\ started < MaxTasks
            /\ started' = started + 1
            /\ task_mutex' = TRUE
            /\ task_name' = name
            /\ Goes(CHOOSE t \in FreeSlots : \A u \in FreeSlots : t <= u, task)
            /\ holder' = name
            /\ step' = Clicked("admitted", "", name)
       ELSE /\ task_name' = name
            /\ step' = Clicked("rejected", name, name)
            /\ UNCHANGED << task_mutex, threads, holder, started >>

\* MainWorkflow._try_load_task(task, task_name), called on the UI thread
try_load_task(task, name) ==
    /\ FreeSlots # {}
    /\ IF mutex_acquire
       THEN /\ started < MaxTasks
            /\ started' = started + 1
            /\ task_mutex' = TRUE
            /\ task_name' = name
            /\ Goes(CHOOSE t \in FreeSlots : \A u \in FreeSlots : t <= u, task)
            /\ holder' = name
            /\ step' = Clicked("admitted", "", name)
       ELSE \* logging.warning("Task: {} is running".format(self._task_name))
            /\ step' = Clicked("rejected", task_name, name)
            /\ UNCHANGED << task_mutex, task_name, threads, holder, started >>

\* a _btn_clicked that does not look the event up: an event without a callback
\* starts the board generation task
BtnClickedUnchecked(event) ==
    /\ app_running
    /\ IF event = GEN_CALIB_BOARD_BTN_CLICKED
       THEN /\ step' = [Raised("TypeError", "ui", "click", 0, 0) EXCEPT !.ret = "raised"]
            /\ UNCHANGED << GateVars, threads, started >>
       ELSE IF event \in btn_clicked_cb_map
       THEN try_load_task(TaskOf(event), TaskNameOf(event))
       ELSE try_load_task([pc |-> "gen"], "Generate CalibBoard image task")
    /\ UNCHANGED << MainVars, WorkflowVars, UiVars, qr, drags, calc >>

\* CalibBoardStitcherUI._btn_clicked(event) with the callbacks of _main
BtnClicked(event) ==
    /\ app_running
    /\ IF event \notin btn_clicked_cb_map
       THEN \* logging.warning("Callback: ... not set.")
            /\ step' = Clicked("not set", "", "")
            /\ UNCHANGED << GateVars, threads, started >>
       ELSE IF event = GEN_CALIB_BOARD_BTN_CLICKED
       THEN \* _try_load_task is called without task_name: TypeError
            /\ step' = [Raised("TypeError", "ui", "click", 0, 0) EXCEPT !.ret = "raised"]
            /\ UNCHANGED << GateVars, threads, started >>
       ELSE try_load_task(TaskOf(event), TaskNameOf(event))
    /\ UNCHANGED << MainVars, WorkflowVars, UiVars, qr, drags, calc >>

\* a _do_task that ends without release()
do_task_keep_gate(t) ==
    /\ threads[t] = Returned
    /\ Goes(t, Idle)
    /\ step' = Nothing
    /\ UNCHANGED << MainVars, GateVars, WorkflowVars, UiVars, InputVars >>

\* MainWorkflow._do_task: task() has returned, release the gate
do_task_release(t) ==
    /\ threads[t] = Returned
    /\ task_mutex' = FALSE
    /\ Goes(t, Idle)
    /\ step' = Nothing
    /\ UNCHANGED << MainVars, task_name, holder, WorkflowVars, UiVars, InputVars >>

\* ------------------------------------------------------------------ _main
\* MainWorkflow._main: the six set_btn_clicked_callback calls, which follow one
\* another with no read of shared state in between
MainRegister ==
    /\ main_pc = 0
    /\ btn_clicked_cb_map' = {RegisterOrder[k] : k \in 1..Len(RegisterOrder)}
    /\ main_pc' = 1
    /\ step' = Nothing
    /\ UNCHANGED << app_running, stop_event, GateVars, threads, WorkflowVars, UiVars,
                    InputVars >>

\* a wait loop that ends whether or not the stop event is set
MainWaitEndsEarly ==
    /\ main_pc = 1
    /\ main_pc' = 2
    /\ step' = Nothing
    /\ UNCHANGED << app_running, stop_event, btn_clicked_cb_map, GateVars, threads,
                    WorkflowVars, UiVars, InputVars >>

\* MainWorkflow._main: while not self._stop_event.is_set(): pass
MainWaitEnds ==
    /\ main_pc = 1
    /\ stop_event
    /\ main_pc' = 2
    /\ step' = Nothing
    /\ UNCHANGED << app_running, stop_event, btn_clicked_cb_map, GateVars, threads,
                    WorkflowVars, UiVars, InputVars >>

\* main(): app.exec() returns, stop_event.set()
AppExit ==
    /\ app_running
    /\ app_running' = FALSE
    /\ stop_event' = TRUE
    /\ step' = Nothing
    /\ UNCHANGED << main_pc, btn_clicked_cb_map, GateVars, threads, WorkflowVars, UiVars,
                    InputVars >>

\* ------------------------------------------------------------------ UI items
\* the methods class SubImage defines (src/QtUI/SubImage.py)
SubImageMethods ==
    { "get_original_pixmap_item", "get_transformed_pixmap_item",
      "update_transformed_img", "set_pos", "set_selected_callback",
      "get_matched_points", "set_matched_point_changed_callback", "switch_to",
      "get_status" }

\* SubImage.__init__: status SHOW_ORIGINAL_LOCKED, both pixmap items as Qt
\* creates them (visible), no matched point widgets
SubImage ==
    [ status |-> SHOW_ORIGINAL_LOCKED, pos |-> None, transformed |-> None,
      widgets |-> << >>, unlocked |-> FALSE, visible |-> {"original", "transformed"} ]

\* a sub-image as _load_sub_image_seq_task leaves it: added, then hidden
HiddenSubImage == [SubImage EXCEPT !.status = STATUS_HIDE, !.visible = {}]

\* a set_matched_points that keeps the widgets it finds
set_matched_points_keep(item, matched_points) ==
    [item EXCEPT
        !.widgets = @ \o [k \in 1..Len(matched_points) |->
                             [cb_point |-> matched_points[k].cb_point,
                              sub_img_point |-> matched_points[k].img_point]],
        !.unlocked = FALSE]

\* SubImagePixmapItem.set_matched_points: the old widgets are removed, one new
\* (locked) widget per point holds the two positions
set_matched_points(item, matched_points) ==
    [item EXCEPT
        !.widgets = [k \in 1..Len(matched_points) |->
                        [cb_point |-> matched_points[k].cb_point,
                         sub_img_point |-> matched_points[k].img_point]],
        !.unlocked = FALSE]

\* SubImagePixmapItem.get_matched_points: read from the widgets, with the
\* item's own img_id
item_get_matched_points(img_id, item) ==
    [k \in 1..Len(item.widgets) |->
        MatchedPoint(img_id, item.widgets[k].cb_point, item.widgets[k].sub_img_point)]

\* CalibBoardStitcherUI.get_sub_image_matched_points
get_sub_image_matched_points(img_id) ==
    IF img_id \in DOMAIN sub_image_items
    THEN item_get_matched_points(img_id, sub_image_items[img_id])
    ELSE << >>

\* SubImage.switch_to: the status, which pixmap item is visible, and the lock
\* of the original item's widgets
switch_to(item, status) ==
    [item EXCEPT
        !.status = status,
        !.visible = IF status = STATUS_HIDE THEN {}
                    ELSE IF status \in {SHOW_ORIGINAL_LOCKED, SHOW_ORIGINAL_MOVABLE}
                    THEN {"original"}
                    ELSE {"transformed"},
        !.unlocked = IF status = SHOW_ORIGINAL_MOVABLE THEN TRUE
                     ELSE IF status = SHOW_ORIGINAL_LOCKED THEN FALSE
                     ELSE @]

\* update_transformed_sub_img, set_sub_image_pos and set_sub_image_status as
\* the calibration tasks call them for one image: what they write under
\* _sub_image_lock
ShowTransformed(items, img_id, matched_points, scale) ==
    IF img_id \in DOMAIN items
    THEN [items EXCEPT
            ![img_id].transformed = WrappedPartial(img_id, matched_points, scale),
            ![img_id].pos = BoxLt(WrappedBox(img_id, matched_points, scale)),
            ![img_id].status = SHOW_TRANSFORMED_LOCKED]
    ELSE items

\* the signals those calls and set_sub_image_matched_points queue for one
\* image: _update_sub_image_signal, _set_sub_image_matched_points_signal, and
\* _update_sub_image_signal again when set_sub_image_status changed the status
PointsSignal(img_id, matched_points, status_changed) ==
    [img_id |-> img_id, matched_points |-> matched_points,
     status_changed |-> status_changed]

\* whether set_sub_image_status(img_id, status) changes the status
StatusChanges(items, img_id, status) ==
    img_id \in DOMAIN items /\ items[img_id].status # status

\* CalibBoardStitcherUI.add_sub_image: AttributeError when SubImage lacks the
\* setter called on it, else the items with the new SubImage
add_sub_image(items, id) ==
    IF "set_add_new_matched_point_callback" \notin SubImageMethods
    THEN [raised |-> TRUE]
    ELSE [raised |-> FALSE,
          items |-> [x \in DOMAIN items \cup {id} |-> IF x = id THEN SubImage ELSE items[x]]]

InInfos(img_id) == \E k \in 1..Len(sub_image_infos) : sub_image_infos[k] = img_id

\* ------------------------------------------------------------------ inputs
\* what the spin boxes of the board parameters can hold
SpinInputs ==
    { [row_count |-> r, col_count |-> 2, qr_pixel_size |-> 1, qr_border |-> 1] : r \in {0, 2} }
\* what the folder dialog returns: nothing, or a folder
FolderChoices == {"", "folder"}
\* os.listdir of the chosen folder
FolderFiles == ImgOrder
\* what the save dialogs return: nothing, or a path
SavePathChoices == {"", "saved.json"}

\* three collinear correspondences of one image
CollinearPoints(img_id) ==
    [k \in 1..3 |-> MatchedPoint(img_id, << k, k >>, << 10 * k, 10 * k >>)]

\* the calibration files the file dialog can return: none (cancelled), one
\* that load_from_file rejects, three well-formed ones, and the file written
\* by _save_matched_points once it exists
FileChoices ==
    {"", "corrupt.json", "good.json", "degenerate.json", "short.json"}
        \cup (IF saved_file = None THEN {} ELSE {"saved.json"})

\* CalibResult.load_from_file, for the files it accepts
load_from_file(file) ==
    CASE file = "good.json" ->
            add_matched_points(add_matched_points(CalibResult(BoardObj),
                Match(BoardObj, "a.png", 3)), Match(BoardObj, "b.png", 3))
      [] file = "degenerate.json" ->
            add_matched_points(add_matched_points(CalibResult(BoardObj),
                CollinearPoints("a.png")), Match(BoardObj, "b.png", 3))
      [] file = "short.json" ->
            add_matched_points(add_matched_points(CalibResult(BoardObj),
                Match(BoardObj, "a.png", 2)), Match(BoardObj, "b.png", 3))
      [] file = "saved.json" -> saved_file

\* ------------------------------------------------------------------ tasks
\* MainWorkflow._gen_calib_board_img_task up to gen_img
GenCalibBoardImg(t) ==
    /\ Pc(t) = "gen"
    /\ \E board \in SpinInputs :
          IF ValidGeometry(board)
          THEN /\ board_img' = board
               /\ Goes(t, [pc |-> "gen_show"])
               /\ step' = Nothing
          ELSE \* CalibBoardObj raises InvalidGeometry
               /\ Dies(t)
               /\ step' = Raised("InvalidGeometry", "worker", "gen", 0, 0)
               /\ UNCHANGED board_img
    /\ UNCHANGED << MainVars, GateVars, stitcher, sub_image_infos, saved_file, UiVars,
                    InputVars >>

\* ... set_calib_board_img: delivered by the UI thread while the worker waits
GenCalibBoardShow(t) ==
    /\ Pc(t) = "gen_show"
    /\ app_running
    /\ Goes(t, Returned)
    /\ step' = Nothing
    /\ UNCHANGED << MainVars, GateVars, WorkflowVars, UiVars, InputVars >>

\* the callback of LOAD_SUB_IMG_SEQ_BTN_CLICKED: the folder dialog, then
\* _load_sub_image_seq_task up to its loop
LoadSubImageSeq(t) ==
    /\ Pc(t) = "load_dialog"
    /\ app_running
    /\ sub_image_infos' = << >>
    /\ \E folder \in FolderChoices :
          IF folder = ""
          THEN Goes(t, Returned)
          ELSE Goes(t, [pc |-> "load_loop", i |-> 1])
    /\ step' = Nothing
    /\ UNCHANGED << MainVars, GateVars, stitcher, board_img, saved_file, UiVars, InputVars >>

\* a loop that never looks at the stop event
LoadSubImageSeqLoopNoStop(t) ==
    /\ Pc(t) = "load_loop"
    /\ LET file_name == FolderFiles[threads[t].i]
           added == add_sub_image(sub_image_items, file_name)
       IN  /\ IF added.raised
              THEN \* logged, the file is skipped
                   /\ step' = Raised("AttributeError", "worker", "load_loop",
                                     threads[t].i, Len(FolderFiles))
                   /\ UNCHANGED << sub_image_items, sub_image_infos >>
              ELSE /\ step' = Nothing
                   /\ sub_image_items' = [added.items EXCEPT ![file_name].status = STATUS_HIDE]
                   /\ sub_image_infos' = IF InInfos(file_name) THEN sub_image_infos
                                         ELSE Append(sub_image_infos, file_name)
           /\ IF threads[t].i = Len(FolderFiles)
              THEN Goes(t, Returned)
              ELSE Goes(t, [threads[t] EXCEPT !.i = @ + 1])
    /\ UNCHANGED << MainVars, GateVars, stitcher, board_img, saved_file, ui_queue,
                    matched_points_changed_callback, InputVars >>

\* a loop without the try/except around the body
LoadSubImageSeqLoopNoExcept(t) ==
    /\ Pc(t) = "load_loop"
    /\ LET file_name == FolderFiles[threads[t].i]
           added == add_sub_image(sub_image_items, file_name)
       IN  IF added.raised
           THEN /\ step' = Raised("AttributeError", "worker", "load_loop",
                                  threads[t].i, Len(FolderFiles))
                /\ Dies(t)
                /\ UNCHANGED << sub_image_items, sub_image_infos >>
           ELSE /\ step' = Nothing
                /\ sub_image_items' = [added.items EXCEPT ![file_name].status = STATUS_HIDE]
                /\ sub_image_infos' = IF InInfos(file_name) THEN sub_image_infos
                                      ELSE Append(sub_image_infos, file_name)
                /\ IF stop_event \/ threads[t].i = Len(FolderFiles)
                   THEN Goes(t, Returned)
                   ELSE Goes(t, [threads[t] EXCEPT !.i = @ + 1])
    /\ UNCHANGED << MainVars, GateVars, stitcher, board_img, saved_file, ui_queue,
                    matched_points_changed_callback, InputVars >>

\* one iteration of the loop of _load_sub_image_seq_task
LoadSubImageSeqLoop(t) ==
    /\ Pc(t) = "load_loop"
    /\ LET file_name == FolderFiles[threads[t].i]
           added == add_sub_image(sub_image_items, file_name)
       IN  /\ IF added.raised
              THEN \* logged, the file is skipped
                   /\ step' = Raised("AttributeError", "worker", "load_loop",
                                     threads[t].i, Len(FolderFiles))
                   /\ UNCHANGED << sub_image_items, sub_image_infos >>
              ELSE /\ step' = Nothing
                   /\ sub_image_items' = [added.items EXCEPT ![file_name].status = STATUS_HIDE]
                   /\ sub_image_infos' = IF InInfos(file_name) THEN sub_image_infos
                                         ELSE Append(sub_image_infos, file_name)
           /\ IF stop_event \/ threads[t].i = Len(FolderFiles)
              THEN Goes(t, Returned)
              ELSE Goes(t, [threads[t] EXCEPT !.i = @ + 1])
    /\ UNCHANGED << MainVars, GateVars, stitcher, board_img, saved_file, ui_queue,
                    matched_points_changed_callback, InputVars >>

\* the callback of IMPORT_CALIB_RESULT_BTN_CLICKED: get_selected_calib_source,
\* then the branch of _load_calib_data
LoadCalibData(t) ==
    /\ Pc(t) = "import"
    /\ \E source \in CalibDataSource :
          IF source = DETECT_QR_CODE THEN Goes(t, [pc |-> "detect_find"])
          ELSE IF source = IMPORT_FROM_FILE THEN Goes(t, [pc |-> "file_dialog"])
          ELSE Goes(t, Returned)
    /\ step' = Nothing
    /\ UNCHANGED << MainVars, GateVars, WorkflowVars, UiVars, InputVars >>

\* the stitcher of the first image, in the order of _sub_image_infos, that
\* shows a code
RECURSIVE FirstWithCode(_, _)
FirstWithCode(infos, codes) ==
    IF infos = << >> THEN None
    ELSE IF from_qr_img(codes[Head(infos)]) # None THEN from_qr_img(codes[Head(infos)])
    ELSE FirstWithCode(Tail(infos), codes)

\* MainWorkflow._detect_and_load_qr, first loop: bind a stitcher
DetectFind(t) ==
    /\ Pc(t) = "detect_find"
    /\ LET found == IF stitcher = None THEN FirstWithCode(sub_image_infos, qr) ELSE None
       IN  /\ stitcher' = IF stitcher = None THEN found ELSE stitcher
           /\ Goes(t, [pc |-> "detect_loop", i |-> 1,
                       calib_result |-> IF found # None THEN CalibResult(found) ELSE None])
    /\ step' = Nothing
    /\ UNCHANGED << MainVars, GateVars, sub_image_infos, board_img, saved_file, UiVars,
                    InputVars >>

\* a second loop that stitches every image
DetectFilterNone(matched_points) == TRUE

\* the second loop stitches an image when: if len(matched_points) > 0
DetectFilter(matched_points) == Len(matched_points) > 0

\* MainWorkflow._detect_and_load_qr, one iteration of the second loop, and
\* the else of the loop when it is exhausted
DetectLoop(t) ==
    /\ Pc(t) = "detect_loop"
    /\ LET i == threads[t].i
           of == Len(sub_image_infos)
           img_id == sub_image_infos[i]
           matched_points == Match(stitcher, img_id, qr[img_id])
           result == Estimate(matched_points)
       IN  IF i > of
           THEN \* for ... else: progress 0, "No QrCode found" is logged
                /\ Goes(t, Returned)
                /\ step' = Nothing
                /\ UNCHANGED UiVars
           ELSE IF stitcher = None
           THEN \* self._stitcher.match on None
                /\ Dies(t)
                /\ step' = Raised("AttributeError", "worker", "detect_loop", i, of)
                /\ UNCHANGED UiVars
           ELSE IF matched_points # << >> /\ threads[t].calib_result = None
           THEN \* calib_result.add_matched_point on None
                /\ Dies(t)
                /\ step' = Raised("AttributeError", "worker", "detect_loop", i, of)
                /\ UNCHANGED UiVars
           ELSE IF ~DetectFilter(matched_points)
           THEN /\ Goes(t, [threads[t] EXCEPT
                       !.i = @ + 1,
                       !.calib_result = IF matched_points = << >> THEN @
                                        ELSE add_matched_points(@, matched_points)])
                /\ step' = Nothing
                /\ UNCHANGED UiVars
           ELSE /\ step' = EngineCall("stitch_full_gen_wrapped_partial", matched_points,
                                      "worker", result, "detect_loop", i, of)
                /\ IF result # "ok"
                   THEN \* the engine raises, nothing catches it
                        /\ Dies(t)
                        /\ UNCHANGED UiVars
                   ELSE /\ Len(ui_queue) < MaxQueue
                        /\ sub_image_items' =
                               ShowTransformed(sub_image_items, img_id, matched_points, None)
                        /\ ui_queue' = Append(ui_queue, PointsSignal(img_id, matched_points,
                                   StatusChanges(sub_image_items, img_id,
                                                 SHOW_TRANSFORMED_LOCKED)))
                        /\ matched_points_changed_callback' = TRUE
                        /\ Goes(t, [threads[t] EXCEPT
                               !.i = @ + 1,
                               !.calib_result = add_matched_points(@, matched_points)])
    /\ UNCHANGED << MainVars, GateVars, WorkflowVars, InputVars >>

\* _load_calib_data, IMPORT_FROM_FILE: the file dialog, load_from_file and
\* Stitcher.from_json_file, inside the try
ImportFromFile(t) ==
    /\ Pc(t) = "file_dialog"
    /\ app_running
    /\ \E file \in FileChoices :
          IF file \in {"", "corrupt.json"}
          THEN \* load_from_file raises, the except logs it
               /\ Goes(t, Returned)
               /\ step' = Raised(IF file = "" THEN "IOFailure" ELSE "CorruptFile",
                                 "worker", "file_dialog", 0, 0)
               /\ UNCHANGED stitcher
          ELSE /\ stitcher' = load_from_file(file).board
               /\ step' = Nothing
               /\ Goes(t, [pc |-> "file_loop", i |-> 1, calib_result |-> load_from_file(file)])
    /\ UNCHANGED << MainVars, GateVars, sub_image_infos, board_img, saved_file, UiVars,
                    InputVars >>

\* _load_calib_data, IMPORT_FROM_FILE: one iteration of the loop over img_ids
ImportFromFileLoop(t) ==
    /\ Pc(t) = "file_loop"
    /\ LET i == threads[t].i
           img_ids == get_matched_img_id(threads[t].calib_result)
           of == Len(img_ids)
           img_id == img_ids[i]
           matched_points == get_matched_points(threads[t].calib_result, img_id)
           result == Estimate(matched_points)
       IN  IF i > of
           THEN /\ Goes(t, Returned)
                /\ step' = Nothing
                /\ UNCHANGED UiVars
           ELSE IF ~InInfos(img_id) \/ Len(matched_points) < 3
           THEN /\ Goes(t, [threads[t] EXCEPT !.i = @ + 1])
                /\ step' = Nothing
                /\ UNCHANGED UiVars
           ELSE /\ step' = EngineCall("stitch_full_gen_wrapped_partial", matched_points,
                                      "worker", result, "file_loop", i, of)
                /\ IF result # "ok"
                   THEN \* the except around the loop logs it: the loop is left
                        /\ Goes(t, Returned)
                        /\ UNCHANGED UiVars
                   ELSE /\ Len(ui_queue) < MaxQueue
                        /\ sub_image_items' =
                               ShowTransformed(sub_image_items, img_id, matched_points, None)
                        /\ ui_queue' = Append(ui_queue, PointsSignal(img_id, matched_points,
                                   StatusChanges(sub_image_items, img_id,
                                                 SHOW_TRANSFORMED_LOCKED)))
                        /\ matched_points_changed_callback' = TRUE
                        /\ Goes(t, [threads[t] EXCEPT !.i = @ + 1])
    /\ UNCHANGED << MainVars, GateVars, WorkflowVars, InputVars >>

\* the points of the registered images as the UI holds them now, those of an
\* image with fewer than at_least points left out, added to a CalibResult
RECURSIVE CollectPoints(_, _, _)
CollectPoints(cr, infos, at_least) ==
    IF infos = << >> THEN cr
    ELSE CollectPoints(
            IF Len(get_sub_image_matched_points(Head(infos))) >= at_least
            THEN add_matched_points(cr, get_sub_image_matched_points(Head(infos)))
            ELSE cr,
            Tail(infos), at_least)

\* the callback of SAVE_CALIB_RESULT_BUTTON: the save dialog, then
\* _save_matched_points
SaveMatchedPoints(t) ==
    /\ Pc(t) = "save_dialog"
    /\ app_running
    /\ \E save_path \in SavePathChoices :
          IF stitcher # None /\ save_path # ""
          THEN saved_file' = CollectPoints(CalibResult(stitcher), sub_image_infos, 0)
          ELSE UNCHANGED saved_file
    /\ Goes(t, Returned)
    /\ step' = Nothing
    /\ UNCHANGED << MainVars, GateVars, stitcher, sub_image_infos, board_img, UiVars,
                    InputVars >>

\* a stitch_and_save_img that goes to the save dialog whatever it holds
StitchAndSaveImgNoCheck(t) ==
    /\ Pc(t) = "stitch"
    /\ Goes(t, [pc |-> "stitch_save"])
    /\ step' = Nothing
    /\ UNCHANGED << MainVars, GateVars, WorkflowVars, UiVars, InputVars >>

\* MainWorkflow.stitch_and_save_img, step 1: the points of the images that
\* hold at least 3 are registered in a CalibResult
StitchAndSaveImg(t) ==
    /\ Pc(t) = "stitch"
    /\ IF stitcher = None
       THEN Goes(t, Returned)
       ELSE LET calib_result == CollectPoints(CalibResult(stitcher), sub_image_infos, 3)
            IN  IF get_matched_img_id(calib_result) = << >>
                THEN Goes(t, Returned)
                ELSE Goes(t, [pc |-> "stitch_box", i |-> 1, calib_result |-> calib_result,
                              boxed |-> << >>])
    /\ step' = Nothing
    /\ UNCHANGED << MainVars, GateVars, WorkflowVars, UiVars, InputVars >>

\* the matched points stitch_and_save_img hands to the box computation of an
\* image: read again from the UI
BoxPoints(calib_result, img_id) == get_sub_image_matched_points(img_id)

\* MainWorkflow.stitch_and_save_img, step 2.1: the box of one image
StitchBox(t) ==
    /\ Pc(t) = "stitch_box"
    /\ LET i == threads[t].i
           img_ids == get_matched_img_id(threads[t].calib_result)
           matched_points == BoxPoints(threads[t].calib_result, img_ids[i])
           result == Estimate(matched_points)
       IN  /\ step' = EngineCall("stitch_full_calc_wrapped_partial_box", matched_points,
                                 "worker", result, "stitch_box", i, Len(img_ids))
           /\ IF result # "ok"
              THEN Dies(t)
              ELSE Goes(t, [threads[t] EXCEPT
                        !.boxed = Append(@, matched_points),
                        !.pc = IF i = Len(img_ids) THEN "stitch_warp" ELSE @,
                        !.i = IF i = Len(img_ids) THEN 1 ELSE @ + 1])
    /\ UNCHANGED << MainVars, GateVars, WorkflowVars, UiVars, InputVars >>

\* MainWorkflow.stitch_and_save_img, step 3: the warp of one image
StitchWarp(t) ==
    /\ Pc(t) = "stitch_warp"
    /\ LET i == threads[t].i
           img_ids == get_matched_img_id(threads[t].calib_result)
           matched_points == get_matched_points(threads[t].calib_result, img_ids[i])
           result == Estimate(matched_points)
       IN  /\ step' = EngineCall("stitch_full_gen_wrapped_partial", matched_points,
                                 "worker", result, "stitch_warp", i, Len(img_ids))
           /\ IF result # "ok"
              THEN Dies(t)
              ELSE Goes(t, [threads[t] EXCEPT
                        !.pc = IF i = Len(img_ids) THEN "stitch_save" ELSE @,
                        !.i = IF i = Len(img_ids) THEN 1 ELSE @ + 1])
    /\ UNCHANGED << MainVars, GateVars, WorkflowVars, UiVars, InputVars >>

\* MainWorkflow.stitch_and_save_img, step 4: the save dialog and imwrite
StitchSave(t) ==
    /\ Pc(t) = "stitch_save"
    /\ app_running
    /\ Goes(t, Returned)
    /\ step' = Nothing
    /\ UNCHANGED << MainVars, GateVars, WorkflowVars, UiVars, InputVars >>

\* ------------------------------------------------------------------ UI thread
\* where the user can drop the board end of a matched point
DragTargets == { << 5, 1 >> }

\* a selection that leaves the other images as they are
SubImageSelectedAlone(img_id) ==
    /\ app_running
    /\ img_id \in DOMAIN sub_image_items
    /\ sub_image_items[img_id].status = SHOW_TRANSFORMED_LOCKED
    /\ sub_image_items' =
          [sub_image_items EXCEPT ![img_id] = switch_to(@, SHOW_ORIGINAL_MOVABLE)]
    /\ step' = Nothing
    /\ UNCHANGED << MainVars, GateVars, threads, WorkflowVars, ui_queue,
                    matched_points_changed_callback, InputVars >>

\* CalibBoardStitcherUI._sub_image_selected(img_id), with the callback
\* MainWorkflow._matched_point_changed it calls when editing ends.  It runs
\* on a double click on the image in the scene or on its row in the table,
\* which a hidden image has too
SubImageSelected(img_id) ==
    /\ app_running
    /\ img_id \in DOMAIN sub_image_items
    /\ LET curr_status == sub_image_items[img_id].status
           locked == [x \in DOMAIN sub_image_items |->
                        switch_to(sub_image_items[x], SHOW_TRANSFORMED_LOCKED)]
           matched_points == get_sub_image_matched_points(img_id)
           result == Estimate(matched_points)
       IN  IF curr_status = SHOW_TRANSFORMED_LOCKED
           THEN /\ sub_image_items' =
                      [x \in DOMAIN sub_image_items |->
                          switch_to(sub_image_items[x],
                                    IF x # img_id THEN STATUS_HIDE ELSE SHOW_ORIGINAL_MOVABLE)]
                /\ step' = Nothing
           ELSE IF curr_status # SHOW_ORIGINAL_MOVABLE
           THEN /\ step' = Nothing
                /\ UNCHANGED sub_image_items
           ELSE IF ~matched_points_changed_callback
           THEN /\ sub_image_items' = locked
                /\ step' = Nothing
           ELSE IF ~InInfos(img_id)
           THEN \* self._sub_image_infos[img_id]: KeyError
                /\ sub_image_items' = locked
                /\ step' = Called(Raised("KeyError", "ui", "matched_point_changed", 0, 0),
                                  img_id, matched_points)
           ELSE IF Len(matched_points) < 3
           THEN /\ sub_image_items' = locked
                /\ step' = Called(Nothing, img_id, matched_points)
           ELSE /\ step' = Called(EngineCall("stitch_full_gen_wrapped_partial",
                                             matched_points, "ui", result,
                                             "matched_point_changed", 0, 0),
                                  img_id, matched_points)
                /\ sub_image_items' =
                      IF result # "ok"
                      THEN locked
                      ELSE [locked EXCEPT
                              ![img_id].transformed =
                                  WrappedPartial(img_id, matched_points, None),
                              ![img_id].pos =
                                  BoxLt(WrappedBox(img_id, matched_points, None))]
    /\ UNCHANGED << MainVars, GateVars, threads, WorkflowVars, ui_queue,
                    matched_points_changed_callback, InputVars >>

\* the user drags the board end of the k-th matched point of an image whose
\* widgets are unlocked (CrosshairItem is movable)
DragMatchedPoint(img_id, k) ==
    /\ app_running
    /\ drags < MaxDrags
    /\ img_id \in DOMAIN sub_image_items
    /\ sub_image_items[img_id].unlocked
    /\ k \in 1..Len(sub_image_items[img_id].widgets)
    /\ \E target \in DragTargets :
          /\ sub_image_items[img_id].widgets[k].cb_point # target
          /\ sub_image_items' = [sub_image_items EXCEPT ![img_id].widgets[k].cb_point = target]
    /\ drags' = drags + 1
    /\ step' = Nothing
    /\ UNCHANGED << MainVars, GateVars, threads, WorkflowVars, ui_queue,
                    matched_points_changed_callback, qr, started, calc >>

\* CalibBoardStitcherUI._update_sub_image_slot
update_sub_image_slot(item) == switch_to(item, item.status)

\* the UI thread delivers the oldest queued signals of one image, one after
\* the other: _update_sub_image_slot, _set_sub_image_matched_points_slot and,
\* if queued, _update_sub_image_slot
SetSubImageMatchedPointsSlot ==
    /\ app_running
    /\ ui_queue # << >>
    /\ LET signal == Head(ui_queue)
           pointed(item) ==
               set_matched_points(update_sub_image_slot(item), signal.matched_points)
       IN  sub_image_items' =
              IF signal.img_id \in DOMAIN sub_image_items
              THEN [sub_image_items EXCEPT
                      ![signal.img_id] =
                          IF signal.status_changed
                          THEN update_sub_image_slot(pointed(@))
                          ELSE pointed(@)]
              ELSE sub_image_items
    /\ ui_queue' = Tail(ui_queue)
    /\ step' = Nothing
    /\ UNCHANGED << MainVars, GateVars, threads, WorkflowVars,
                    matched_points_changed_callback, InputVars >>

\* ------------------------------------------------------------------ behaviours
\* what is the same in every initial state
Constructed ==
    /\ main_pc = 0
    /\ app_running = TRUE
    /\ stop_event = FALSE
    /\ btn_clicked_cb_map = {}
    /\ task_mutex = FALSE
    /\ task_name = ""
    /\ threads = [t \in Slots |-> Idle]
    /\ stitcher = None
    /\ board_img = None
    /\ saved_file = None
    /\ ui_queue = << >>
    /\ matched_points_changed_callback = FALSE
    /\ qr \in QrInputs
    /\ drags = 0
    /\ started = 0
    /\ calc = None
    /\ holder = ""
    /\ step = Nothing

\* the state after construction: main() has built the UI and the workflow and
\* started _main; no sub-image is registered
Init ==
    /\ Constructed
    /\ sub_image_infos = << >>
    /\ sub_image_items = [x \in {} |-> SubImage]

\* the same, without or with the image files registered as hidden sub-images,
\* which is what _load_sub_image_seq_task is written to do; from Init no run
\* gets there, because add_sub_image raises for every file
InitRegistered ==
    /\ Constructed
    /\ \E n \in {0, Len(ImgOrder)} :
          /\ sub_image_infos = SubSeq(ImgOrder, 1, n)
          /\ sub_image_items = [x \in {ImgOrder[k] : k \in 1..n} |-> HiddenSubImage]

\* a step of the worker thread of slot t
WorkerStep(t) ==
    \/ do_task_release(t)
    \/ GenCalibBoardImg(t)
    \/ GenCalibBoardShow(t)
    \/ LoadSubImageSeq(t)
    \/ LoadSubImageSeqLoop(t)
    \/ LoadCalibData(t)
    \/ DetectFind(t)
    \/ DetectLoop(t)
    \/ ImportFromFile(t)
    \/ ImportFromFileLoop(t)
    \/ SaveMatchedPoints(t)
    \/ StitchAndSaveImg(t)
    \/ StitchBox(t)
    \/ StitchWarp(t)
    \/ StitchSave(t)

Next ==
    \/ MainRegister
    \/ MainWaitEnds
    \/ AppExit
    \/ \E event \in ButtonClickedEvent : BtnClicked(event)
    \/ \E img_id \in Imgs : SubImageSelected(img_id)
    \/ \E img_id \in Imgs, k \in 1..3 : DragMatchedPoint(img_id, k)
    \/ SetSubImageMatchedPointsSlot
    \/ \E t \in Slots : WorkerStep(t)

Spec == Init /\ [][Next]_vars
SpecRegistered == InitRegistered /\ [][Next]_vars

\* a started thread is scheduled, and the UI thread's event loop delivers the
\* signals queued for it
Fairness ==
    /\ \A t \in Slots : WF_vars(WorkerStep(t))
    /\ WF_vars(SetSubImageMatchedPointsSlot)
SpecRegisteredFair == InitRegistered /\ [][Next]_vars /\ Fairness

\* the program when only the "load sub image sequence" button is used
NextLoad ==
    \/ MainRegister
    \/ MainWaitEnds
    \/ AppExit
    \/ BtnClicked(LOAD_SUB_IMG_SEQ_BTN_CLICKED)
    \/ \E t \in Slots : do_task_release(t)
    \/ \E t \in Slots : LoadSubImageSeq(t)
    \/ \E t \in Slots : LoadSubImageSeqLoop(t)

SpecLoadFair == InitRegistered /\ [][NextLoad]_vars /\ Fairness

\* the workflow's main thread, started by run(), is scheduled as well
MainFairness == WF_vars(MainRegister) /\ WF_vars(MainWaitEnds)
SpecMainFair == InitRegistered /\ [][NextLoad]_vars /\ Fairness /\ MainFairness

\* a session re-opened on a calibration result saved by an earlier one.
\* The point lists an image can hold in the UI when the result is saved:
\* none, the three the engine matched, or those with one board point dragged
SavedPointLists(img_id) ==
    { << >>, Match(BoardObj, img_id, 3) }
        \cup { [Match(BoardObj, img_id, 3) EXCEPT ![k].cb_point = target] :
                  k \in 1..3, target \in DragTargets }

\* what _save_matched_points wrote for those lists
SavedFiles ==
    { add_matched_points(add_matched_points(CalibResult(BoardObj), pa), pb) :
        pa \in SavedPointLists(ImgOrder[1]), pb \in SavedPointLists(ImgOrder[2]) }

\* the new session: the same sub-images loaded, no points yet, the file there
InitReopen ==
    /\ main_pc = 0
    /\ app_running = TRUE
    /\ stop_event = FALSE
    /\ btn_clicked_cb_map = {}
    /\ task_mutex = FALSE
    /\ task_name = ""
    /\ holder = ""
    /\ threads = [t \in Slots |-> Idle]
    /\ stitcher = None
    /\ board_img = None
    /\ saved_file \in SavedFiles
    /\ ui_queue = << >>
    /\ matched_points_changed_callback = FALSE
    /\ qr \in QrInputs
    /\ drags = 0
    /\ started = 0
    /\ calc = None
    /\ step = Nothing
    /\ sub_image_infos = ImgOrder
    /\ sub_image_items = [x \in Imgs |-> HiddenSubImage]

\* the program when only the "import calibration result" button is used and
\* no point is edited
NextReopen ==
    \/ MainRegister
    \/ MainWaitEnds
    \/ AppExit
    \/ BtnClicked(IMPORT_CALIB_RESULT_BTN_CLICKED)
    \/ SetSubImageMatchedPointsSlot
    \/ \E t \in Slots : do_task_release(t)
    \/ \E t \in Slots : LoadCalibData(t)
    \/ \E t \in Slots : DetectFind(t)
    \/ \E t \in Slots : DetectLoop(t)
    \/ \E t \in Slots : ImportFromFile(t)
    \/ \E t \in Slots : ImportFromFileLoop(t)

SpecReopen == InitReopen /\ [][NextReopen]_vars

\* ------------------------------------------------------------------ canvas
\* stitch_and_save_img, steps 2.1 and 2.2, on boxes with numeric edges.  An
\* edge is held in half pixels: h stands for h/2, so that an edge can fall
\* between two pixels.

\* math.floor and math.ceil of h/2
floor(h) == h \div 2
ceil(h) == -((-h) \div 2)

min(a, b) == IF b < a THEN b ELSE a
max(a, b) == IF b > a THEN b ELSE a

\* the boxes stitch_full_calc_wrapped_partial_box can return here
Boxes ==
    { [left |-> x1, top |-> y1, right |-> x2, bottom |-> y2] :
        x1 \in {-1, 0}, y1 \in {0, 1}, x2 \in {4, 5}, y2 \in {2, 3} }

\* the body of the loop of step 2.1 for i == 0 and for i > 0
union_first(box) ==
    [l |-> floor(box.left), t |-> floor(box.top),
     r |-> ceil(box.right), b |-> ceil(box.bottom)]
union_next(u, box) ==
    [l |-> min(u.l, floor(box.left)),
     t |-> min(u.t, floor(box.top)),
     r |-> max(u.r, floor(box.right)),
     b |-> max(u.b, ceil(box.bottom))]

\* numpy.zeros(shape, dtype=uint8): shape[0] rows of shape[1] columns of
\* shape[2] channels, every element 0
zeros(shape) ==
    [rows |-> shape[1], cols |-> shape[2], channels |-> shape[3], fill |-> 0]

\* step 2.2: base_w, base_h = r - l, b - t, and the canvas
base_img(u) ==
    LET base_w == u.r - u.l
        base_h == u.b - u.t
    IN  zeros(<< base_w, base_h, 3 >>)

\* one iteration of the loop of step 2.1
UnionBox ==
    /\ calc # None
    /\ calc.i < Len(calc.boxes)
    /\ calc' = [calc EXCEPT
                  !.i = @ + 1,
                  !.union = IF calc.i = 0 THEN union_first(calc.boxes[1])
                            ELSE union_next(@, calc.boxes[calc.i + 1])]
    /\ step' = Nothing
    /\ UNCHANGED << MainVars, GateVars, threads, WorkflowVars, UiVars, qr, drags, started >>

\* step 2.2
NewBaseImg ==
    /\ calc # None
    /\ calc.i = Len(calc.boxes)
    /\ calc.base_img = None
    /\ calc' = [calc EXCEPT !.base_img = base_img(calc.union)]
    /\ step' = Nothing
    /\ UNCHANGED << MainVars, GateVars, threads, WorkflowVars, UiVars, qr, drags, started >>

\* the boxes of the images of a job, before the loop of step 2.1
InitCanvas ==
    /\ main_pc = 0
    /\ app_running = TRUE
    /\ stop_event = FALSE
    /\ btn_clicked_cb_map = {}
    /\ task_mutex = FALSE
    /\ task_name = ""
    /\ holder = ""
    /\ threads = [t \in Slots |-> Idle]
    /\ stitcher = None
    /\ board_img = None
    /\ saved_file = None
    /\ ui_queue = << >>
    /\ matched_points_changed_callback = FALSE
    /\ qr = [x \in Imgs |-> 3]
    /\ drags = 0
    /\ started = 0
    /\ step = Nothing
    /\ sub_image_infos = << >>
    /\ sub_image_items = [x \in {} |-> SubImage]
    /\ \E n \in 1..MaxBoxes : \E boxes \in [1..n -> Boxes] :
          calc = [boxes |-> boxes, i |-> 0, union |-> None, base_img |-> None]

NextCanvas == UnionBox \/ NewBaseImg

SpecCanvas == InitCanvas /\ [][NextCanvas]_vars

\* ------------------------------------------------ step 3: compositing
\* (stitch_and_save_img, the loop that pastes each warped partial)

\* the boxes of the images of a compositing job, in half pixels
CompositeBoxes ==
    { [left |-> x1, top |-> y1, right |-> x2, bottom |-> y2] :
        x1 \in {0, 2}, y1 \in {0, 2}, x2 \in {4, 5}, y2 \in {4, 6} }

\* the warped partial of an image is as large as its box, or one pixel larger
\* in each direction: the two conventions an engine can follow
Pads == {0, 1}

\* the alpha channel of a warped partial: every pixel covered, or the first
\* pixel not covered (0) and the last one half covered (128)
Masks == {"full", "corners"}

\* shape of the array gen_wrapped_partial returns for a box
partial_shape(box, pad) ==
    << ceil(box.bottom) - floor(box.top) + pad,
       ceil(box.right) - floor(box.left) + pad, 4 >>

\* wrapped_partial[py, px, 3]
alpha(mask, shape, py, px) ==
    IF mask = "full" THEN 255
    ELSE IF py = 0 /\ px = 0 THEN 0
    ELSE IF py = shape[1] - 1 /\ px = shape[2] - 1 THEN 128
    ELSE 255

\* a[start:stop] on an axis of n elements: the indices numpy selects
slice(n, start, stop) ==
    LET norm(v) == IF v < 0 THEN max(v + n, 0) ELSE min(v, n)
    IN  { k \in 0..(n - 1) : norm(start) <= k /\ k < norm(stop) }

\* first index of a slice (0 for an empty one, never used then)
slice_start(S) == IF S = {} THEN 0 ELSE CHOOSE k \in S : \A m \in S : k <= m

\* first-writer-wins assignment
blit_keep_first(old, new, a) == IF a = 255 /\ old = 0 THEN new ELSE old

\* assignment under any non-zero alpha
blit_any_alpha(old, new, a) == IF a # 0 THEN new ELSE old

\* base_img_roi[wrapped_mask_roi_bool] = wrapped_partial_roi[wrapped_mask_roi_bool],
\* on one pixel, with wrapped_mask_roi_bool = (wrapped_mask_roi == 255)
blit(old, new, a) == IF a = 255 THEN new ELSE old

\* the pixels of the canvas that numpy.zeros returned
canvas_pixels(img) ==
    [p \in (0..(img.rows - 1)) \X (0..(img.cols - 1)) |-> img.fill]

\* one iteration of the loop of step 3, on the partial of image j
composite(c, j) ==
    LET box == c.boxes[j]
        l == c.union.l
        t == c.union.t
        base_w == c.union.r - c.union.l
        base_h == c.union.b - c.union.t
        shape == partial_shape(box, c.pad)
        box_l == floor(box.left) - l
        box_r == ceil(box.right) - l
        box_t == floor(box.top) - t
        box_b == ceil(box.bottom) - t
        roi_l == min(max(box_l, 0), base_w - 1)
        roi_r == min(box_r, base_w - 1)
        roi_t == min(max(box_t, 0), base_h - 1)
        roi_b == min(box_b, base_h - 1)
        rows == slice(c.base_img.rows, roi_t, roi_b + 1)
        cols == slice(c.base_img.cols, roi_l, roi_r + 1)
        prows == slice(shape[1], roi_t - box_t, roi_b - box_t + 1)
        pcols == slice(shape[2], roi_l - box_l, roi_r - box_l + 1)
        old == IF j = 1 THEN canvas_pixels(c.base_img) ELSE c.pixels
        roi == [roi_l |-> roi_l, roi_r |-> roi_r, roi_t |-> roi_t, roi_b |-> roi_b,
                off_t |-> roi_t - box_t, off_l |-> roi_l - box_l,
                written |-> << Cardinality(rows), Cardinality(cols) >>,
                read |-> << Cardinality(prows), Cardinality(pcols) >>]
    IN  IF roi.written # roi.read
        THEN [c EXCEPT !.k = j, !.roi = roi, !.exc = "IndexError"]
        ELSE [c EXCEPT
                !.k = j, !.roi = roi, !.prev = old,
                !.pixels =
                    [p \in DOMAIN old |->
                        IF p[1] \in rows /\ p[2] \in cols
                        THEN blit(old[p], j,
                                  alpha(c.masks[j], shape,
                                        slice_start(prows) + (p[1] - slice_start(rows)),
                                        slice_start(pcols) + (p[2] - slice_start(cols))))
                        ELSE old[p]]]

CompositePartial ==
    /\ calc # None
    /\ calc.base_img # None
    /\ calc.exc = "none"
    /\ calc.k < Len(calc.boxes)
    /\ calc' = composite(calc, calc.k + 1)
    /\ step' = Nothing
    /\ UNCHANGED << MainVars, GateVars, threads, WorkflowVars, UiVars, qr, drags, started >>

\* the boxes, partial sizes and alpha channels of a job, before step 2.1
InitComposite ==
    /\ main_pc = 0
    /\ app_running = TRUE
    /\ stop_event = FALSE
    /\ btn_clicked_cb_map = {}
    /\ task_mutex = FALSE
    /\ task_name = ""
    /\ holder = ""
    /\ threads = [t \in Slots |-> Idle]
    /\ stitcher = None
    /\ board_img = None
    /\ saved_file = None
    /\ ui_queue = << >>
    /\ matched_points_changed_callback = FALSE
    /\ qr = [x \in Imgs |-> 3]
    /\ drags = 0
    /\ started = 0
    /\ step = Nothing
    /\ sub_image_infos = << >>
    /\ sub_image_items = [x \in {} |-> SubImage]
    /\ \E n \in 1..MaxBoxes : \E boxes \in [1..n -> CompositeBoxes] :
       \E masks \in [1..n -> Masks] : \E pad \in Pads :
          calc = [boxes |-> boxes, i |-> 0, union |-> None, base_img |-> None,
                  masks |-> masks, pad |-> pad, k |-> 0, exc |-> "none",
                  roi |-> None, pixels |-> << >>, prev |-> << >>]

NextComposite == UnionBox \/ NewBaseImg \/ CompositePartial

SpecComposite == InitComposite /\ [][NextComposite]_vars

\* ------------------------------------------------ board generation: progress
\* _gen_calib_board_img_task, statement by statement, with the values it
\* sends to set_progress_bar_value

\* what the four spin boxes can hold when the task reads them
ProgressBoards ==
    { [row_count |-> r, col_count |-> c, qr_pixel_size |-> 1, qr_border |-> b] :
        r \in 0..MaxCount, c \in 0..MaxCount, b \in {-1, 0, 1} }

\* the value gen_img reports after the k-th of n cells, as the lambda passes
\* it on: int(v), v = 100 * k / n
int_progress(k, n) == (100 * k) \div n

\* self._ui.set_progress_bar_value(value)
set_progress_bar_value(c, value) == [c EXCEPT !.sent = Append(@, value)]

\* self._ui.set_progress_bar_value(0)
GenProgressZero ==
    /\ calc # None
    /\ calc.pc = "zero"
    /\ calc' = [set_progress_bar_value(calc, 0) EXCEPT !.pc = "board_obj"]
    /\ step' = Nothing
    /\ UNCHANGED << MainVars, GateVars, threads, WorkflowVars, UiVars, qr, drags, started >>

\* board_obj = CalibBoardObj(...): InvalidGeometry ends the thread
GenBoardObj ==
    /\ calc # None
    /\ calc.pc = "board_obj"
    /\ IF ValidGeometry(calc.board)
       THEN /\ calc' = [calc EXCEPT !.pc = "gen_img"]
            /\ step' = Nothing
       ELSE /\ calc' = [calc EXCEPT !.pc = "raised"]
            /\ step' = Raised("InvalidGeometry", "worker", "gen", 0, 0)
    /\ UNCHANGED << MainVars, GateVars, threads, WorkflowVars, UiVars, qr, drags, started >>

\* gen_img renders one more cell and calls progress_callback
GenImgCell ==
    /\ calc # None
    /\ calc.pc = "gen_img"
    /\ LET n == calc.board.row_count * calc.board.col_count
           k == calc.k + 1
       IN  calc' = [set_progress_bar_value(calc, int_progress(k, n)) EXCEPT
                      !.k = k,
                      !.pc = IF k = n THEN "hundred" ELSE "gen_img"]
    /\ step' = Nothing
    /\ UNCHANGED << MainVars, GateVars, threads, WorkflowVars, UiVars, qr, drags, started >>

\* self._ui.set_progress_bar_value(100); set_calib_board_img; return
GenProgressHundred ==
    /\ calc # None
    /\ calc.pc = "hundred"
    /\ calc' = [set_progress_bar_value(calc, 100) EXCEPT !.pc = "returned"]
    /\ step' = Nothing
    /\ UNCHANGED << MainVars, GateVars, threads, WorkflowVars, UiVars, qr, drags, started >>

\* the task is admitted, the spin boxes hold a board
InitProgress ==
    /\ main_pc = 0
    /\ app_running = TRUE
    /\ stop_event = FALSE
    /\ btn_clicked_cb_map = {}
    /\ task_mutex = FALSE
    /\ task_name = ""
    /\ holder = ""
    /\ threads = [t \in Slots |-> Idle]
    /\ stitcher = None
    /\ board_img = None
    /\ saved_file = None
    /\ ui_queue = << >>
    /\ matched_points_changed_callback = FALSE
    /\ qr = [x \in Imgs |-> 3]
    /\ drags = 0
    /\ started = 0
    /\ step = Nothing
    /\ sub_image_infos = << >>
    /\ sub_image_items = [x \in {} |-> SubImage]
    /\ \E board \in ProgressBoards :
          calc = [board |-> board, pc |-> "zero", k |-> 0, sent |-> << >>]

NextProgress == GenProgressZero \/ GenBoardObj \/ GenImgCell \/ GenProgressHundred

SpecProgress == InitProgress /\ [][NextProgress]_vars

\* ------------------------------------------------ CalibResult persistence
\* CalibResult.save and CalibResult.load_from_file on the file format
\* {"board": {...}, "points": [{"img_id", "cb_point", "img_point"}, ...]}

\* the points a CalibResult is built from here
PersistPoints ==
    { MatchedPoint(x, cb, << 5, 5 >>) : x \in Imgs, cb \in { << 1, 1 >>, << 3, 1 >> } }

RECURSIVE flat_points(_, _)
\* the points of the images `ids`, image after image
flat_points(cr, ids) ==
    IF ids = << >> THEN << >>
    ELSE get_matched_points(cr, Head(ids)) \o flat_points(cr, Tail(ids))

\* a save that writes every distinct point once
save_unique(cr) ==
    LET ps == flat_points(cr, get_matched_img_id(cr))
    IN  [board |-> cr.board,
         points |-> SelectSeq([k \in 1..Len(ps) |->
                                 IF \E m \in 1..(k - 1) : ps[m] = ps[k] THEN None ELSE ps[k]],
                              LAMBDA q : q # None)]

\* CalibResult.save: the geometry and one flat list of all points
save(cr) ==
    [board |-> cr.board, points |-> flat_points(cr, get_matched_img_id(cr))]

\* CalibResult.load_from_file on a well-formed file: a CalibResult of the
\* file's geometry, every point of the file added in file order
parse_file(file) == add_matched_points(CalibResult(file.board), file.points)

\* calib_result.add_matched_point(p), for the next point
PersistAdd ==
    /\ calc # None
    /\ calc.pc = "build"
    /\ calc.todo # << >>
    /\ calc' = [calc EXCEPT !.x = add_matched_point(@, Head(calc.todo)),
                            !.todo = Tail(@)]
    /\ step' = Nothing
    /\ UNCHANGED << MainVars, GateVars, threads, WorkflowVars, UiVars, qr, drags, started >>

\* calib_result.save(path)
PersistSave ==
    /\ calc # None
    /\ calc.pc = "build"
    /\ calc.todo = << >>
    /\ calc' = [calc EXCEPT !.file = save(calc.x), !.pc = "saved"]
    /\ step' = Nothing
    /\ UNCHANGED << MainVars, GateVars, threads, WorkflowVars, UiVars, qr, drags, started >>

\* CalibResult.load_from_file(path)
PersistLoad ==
    /\ calc # None
    /\ calc.pc = "saved"
    /\ calc' = [calc EXCEPT !.loaded = parse_file(calc.file), !.pc = "loaded"]
    /\ step' = Nothing
    /\ UNCHANGED << MainVars, GateVars, threads, WorkflowVars, UiVars, qr, drags, started >>

\* an empty CalibResult and the points that will be added to it
InitPersist ==
    /\ main_pc = 0
    /\ app_running = TRUE
    /\ stop_event = FALSE
    /\ btn_clicked_cb_map = {}
    /\ task_mutex = FALSE
    /\ task_name = ""
    /\ holder = ""
    /\ threads = [t \in Slots |-> Idle]
    /\ stitcher = None
    /\ board_img = None
    /\ saved_file = None
    /\ ui_queue = << >>
    /\ matched_points_changed_callback = FALSE
    /\ qr = [x \in Imgs |-> 3]
    /\ drags = 0
    /\ started = 0
    /\ step = Nothing
    /\ sub_image_infos = << >>
    /\ sub_image_items = [x \in {} |-> SubImage]
    /\ \E n \in 0..MaxPoints : \E todo \in [1..n -> PersistPoints] :
          calc = [todo |-> todo, x |-> CalibResult(BoardObj), file |-> None,
                  loaded |-> None, pc |-> "build"]

NextPersist == PersistAdd \/ PersistSave \/ PersistLoad

SpecPersist == InitPersist /\ [][NextPersist]_vars

\* ------------------------------------------------ BoardGeometry: cells
\* the geometries a board is constructed from here
CellBoards ==
    { [row_count |-> r, col_count |-> c, qr_pixel_size |-> ps, qr_border |-> b] :
        r \in 0..MaxCount, c \in 0..MaxCount, ps \in 0..2, b \in {-1, 0, 1} }

\* the cells of a board: 0 <= row < row_count, 0 <= col < col_count
Cells(board) == (0..(board.row_count - 1)) \X (0..(board.col_count - 1))

\* CalibBoardObj(...): the geometry is accepted or InvalidGeometry is raised
CellBoardObj ==
    /\ calc # None
    /\ calc.pc = "board_obj"
    /\ IF ValidGeometry(calc.board)
       THEN /\ calc' = [calc EXCEPT !.pc = "cells"]
            /\ step' = Nothing
       ELSE /\ calc' = [calc EXCEPT !.pc = "raised"]
            /\ step' = Raised("InvalidGeometry", "worker", "gen", 0, 0)
    /\ UNCHANGED << MainVars, GateVars, threads, WorkflowVars, UiVars, qr, drags, started >>

\* cell_to_board_point of two cells of the board
CellPoints ==
    /\ calc # None
    /\ calc.pc = "cells"
    /\ \E a \in Cells(calc.board), b \in Cells(calc.board) :
          calc' = [calc EXCEPT !.a = a, !.b = b,
                               !.pa = cell_to_board_point(calc.board, a[1], a[2]),
                               !.pb = cell_to_board_point(calc.board, b[1], b[2]),
                               !.pc = "points"]
    /\ step' = Nothing
    /\ UNCHANGED << MainVars, GateVars, threads, WorkflowVars, UiVars, qr, drags, started >>

\* the parameters of a board, before it is constructed
InitCells ==
    /\ main_pc = 0
    /\ app_running = TRUE
    /\ stop_event = FALSE
    /\ btn_clicked_cb_map = {}
    /\ task_mutex = FALSE
    /\ task_name = ""
    /\ holder = ""
    /\ threads = [t \in Slots |-> Idle]
    /\ stitcher = None
    /\ board_img = None
    /\ saved_file = None
    /\ ui_queue = << >>
    /\ matched_points_changed_callback = FALSE
    /\ qr = [x \in Imgs |-> 3]
    /\ drags = 0
    /\ started = 0
    /\ step = Nothing
    /\ sub_image_infos = << >>
    /\ sub_image_items = [x \in {} |-> SubImage]
    /\ \E board \in CellBoards :
          calc = [board |-> board, a |-> << 0, 0 >>, b |-> << 0, 0 >>,
                  pa |-> << 0, 0 >>, pb |-> << 0, 0 >>, pc |-> "board_obj"]

NextCells == CellBoardObj \/ CellPoints

SpecCells == InitCells /\ [][NextCells]_vars

\* ------------------------------------------------ transform estimation
\* the correspondences a stitch call is given here: board points on a
\* 3 x 2 grid, each seen at ten times its board coordinates
EstimatePoints ==
    { MatchedPoint("a.png", << x, y >>, << 10 * x, 10 * y >>) : x \in 0..2, y \in 0..1 }

\* stitch_full_gen_wrapped_partial(img, matched_points, scale): the partial
\* image and its box, or the exception of the estimation
stitch_full_gen_wrapped_partial(img, matched_points, scale) ==
    LET result == Estimate(matched_points)
    IN  IF result = "ok"
        THEN [exc |-> "none",
              partial |-> WrappedPartial(img, matched_points, scale),
              box |-> WrappedBox(img, matched_points, scale)]
        ELSE [exc |-> result, partial |-> None, box |-> None]

\* stitch_full_calc_wrapped_partial_box(img_size, matched_points, scale):
\* the box alone, or the exception of the estimation
stitch_full_calc_wrapped_partial_box(img, matched_points, scale) ==
    LET result == Estimate(matched_points)
    IN  IF result = "ok"
        THEN [exc |-> "none", box |-> WrappedBox(img, matched_points, scale)]
        ELSE [exc |-> result, box |-> None]

\* one call of stitch_full_calc_wrapped_partial_box
EstimateCalcBox ==
    /\ calc # None
    /\ calc.pc = "points"
    /\ calc' = [calc EXCEPT
                  !.calc_box = stitch_full_calc_wrapped_partial_box("a.png", calc.points, None),
                  !.pc = "box"]
    /\ step' = Nothing
    /\ UNCHANGED << MainVars, GateVars, threads, WorkflowVars, UiVars, qr, drags, started >>

\* one call of stitch_full_gen_wrapped_partial on the same arguments
EstimateGenPartial ==
    /\ calc # None
    /\ calc.pc = "box"
    /\ calc' = [calc EXCEPT
                  !.gen = stitch_full_gen_wrapped_partial("a.png", calc.points, None),
                  !.pc = "partial"]
    /\ step' = Nothing
    /\ UNCHANGED << MainVars, GateVars, threads, WorkflowVars, UiVars, qr, drags, started >>

\* the arguments of the two calls
InitEstimate ==
    /\ main_pc = 0
    /\ app_running = TRUE
    /\ stop_event = FALSE
    /\ btn_clicked_cb_map = {}
    /\ task_mutex = FALSE
    /\ task_name = ""
    /\ holder = ""
    /\ threads = [t \in Slots |-> Idle]
    /\ stitcher = None
    /\ board_img = None
    /\ saved_file = None
    /\ ui_queue = << >>
    /\ matched_points_changed_callback = FALSE
    /\ qr = [x \in Imgs |-> 3]
    /\ drags = 0
    /\ started = 0
    /\ step = Nothing
    /\ sub_image_infos = << >>
    /\ sub_image_items = [x \in {} |-> SubImage]
    /\ \E n \in 0..MaxPoints : \E points \in [1..n -> EstimatePoints] :
          calc = [points |-> points, calc_box |-> None, gen |-> None, pc |-> "points"]

NextEstimate == EstimateCalcBox \/ EstimateGenPartial

SpecEstimate == InitEstimate /\ [][NextEstimate]_vars

\* ------------------------------------------------ QR detection: progress
\* _detect_and_load_qr as the sequence of progress values and log records it
\* sends.  The images of _sub_image_infos show 0, 2 or 3 decodable codes;
\* the stitcher is bound before the run or not.
DetectCodes == {0, 2, 3}

\* self._ui.set_progress_bar_value(0), then the counters of the run
DetectProgressZero ==
    /\ calc # None
    /\ calc.pc = "start"
    /\ calc' = [set_progress_bar_value(calc, 0) EXCEPT !.pc = "find"]
    /\ step' = Nothing
    /\ UNCHANGED << MainVars, GateVars, threads, WorkflowVars, UiVars, qr, drags, started >>

\* the first loop: when no stitcher is bound, from_qr_img of each image until
\* one gives a stitcher, and a CalibResult for it
DetectProgressFind ==
    /\ calc # None
    /\ calc.pc = "find"
    /\ LET found == ~calc.stitcher /\ \E k \in 1..Len(calc.codes) :
                                          from_qr_img(calc.codes[k]) # None
       IN  calc' = [calc EXCEPT !.stitcher = @ \/ found,
                                !.calib_result = found,
                                !.i = 1,
                                !.pc = "loop"]
    /\ step' = Nothing
    /\ UNCHANGED << MainVars, GateVars, threads, WorkflowVars, UiVars, qr, drags, started >>

\* one iteration of the second loop
DetectProgressLoop ==
    /\ calc # None
    /\ calc.pc = "loop"
    /\ calc.i <= Len(calc.codes)
    /\ LET matched_points == Match(BoardObj, "a.png", calc.codes[calc.i])
           result == Estimate(matched_points)
       IN  IF ~calc.stitcher
           THEN \* self._stitcher.match on None
                /\ calc' = [calc EXCEPT !.pc = "raised"]
                /\ step' = Raised("AttributeError", "worker", "detect_loop",
                                  calc.i, Len(calc.codes))
           ELSE IF matched_points # << >> /\ ~calc.calib_result
           THEN \* calib_result.add_matched_point on None
                /\ calc' = [calc EXCEPT !.pc = "raised"]
                /\ step' = Raised("AttributeError", "worker", "detect_loop",
                                  calc.i, Len(calc.codes))
           ELSE IF ~DetectFilter(matched_points)
           THEN /\ calc' = [calc EXCEPT !.i = @ + 1]
                /\ step' = Nothing
           ELSE IF result # "ok"
           THEN \* the engine raises, nothing catches it
                /\ calc' = [calc EXCEPT !.pc = "raised"]
                /\ step' = EngineCall("stitch_full_gen_wrapped_partial", matched_points,
                                      "worker", result, "detect_loop",
                                      calc.i, Len(calc.codes))
           ELSE /\ calc' = [set_progress_bar_value(calc,
                                int_progress(calc.i, Len(calc.codes)))
                               EXCEPT !.i = @ + 1, !.displayed = @ + 1]
                /\ step' = EngineCall("stitch_full_gen_wrapped_partial", matched_points,
                                      "worker", result, "detect_loop",
                                      calc.i, Len(calc.codes))
    /\ UNCHANGED << MainVars, GateVars, threads, WorkflowVars, UiVars, qr, drags, started >>

\* the else of the second loop, which has no break: progress 0 and the
\* error record, then the task returns
DetectProgressElse ==
    /\ calc # None
    /\ calc.pc = "loop"
    /\ calc.i > Len(calc.codes)
    /\ calc' = [set_progress_bar_value(calc, 0) EXCEPT
                  !.logged = Append(@, "No QrCode found"),
                  !.pc = "returned"]
    /\ step' = Nothing
    /\ UNCHANGED << MainVars, GateVars, threads, WorkflowVars, UiVars, qr, drags, started >>

\* the images of a detection run and whether a stitcher is already bound
InitDetectProgress ==
    /\ main_pc = 0
    /\ app_running = TRUE
    /\ stop_event = FALSE
    /\ btn_clicked_cb_map = {}
    /\ task_mutex = FALSE
    /\ task_name = ""
    /\ holder = ""
    /\ threads = [t \in Slots |-> Idle]
    /\ stitcher = None
    /\ board_img = None
    /\ saved_file = None
    /\ ui_queue = << >>
    /\ matched_points_changed_callback = FALSE
    /\ qr = [x \in Imgs |-> 3]
    /\ drags = 0
    /\ started = 0
    /\ step = Nothing
    /\ sub_image_infos = << >>
    /\ sub_image_items = [x \in {} |-> SubImage]
    /\ \E n \in 0..MaxCount : \E codes \in [1..n -> DetectCodes] : \E bound \in BOOLEAN :
          calc = [codes |-> codes, stitcher |-> bound, calib_result |-> FALSE, i |-> 0,
                  sent |-> << >>, logged |-> << >>, displayed |-> 0, pc |-> "start"]

NextDetectProgress ==
    DetectProgressZero \/ DetectProgressFind \/ DetectProgressLoop \/ DetectProgressElse

SpecDetectProgress == InitDetectProgress /\ [][NextDetectProgress]_vars

\* ------------------------------------------------ matched point widgets
\* SubImagePixmapItem.set_matched_points and get_matched_points on the UI
\* thread, with the graphics items the widgets put into the scene: one line
\* per widget, and two crosshairs, children of the board and of the image

\* the lists set_matched_points is given: up to MaxPoints points, of the
\* item's image or carrying the id of another one
WidgetPoints == PersistPoints

\* MatchedPointWidget.__init__: a line added to the scene, a crosshair under
\* each parent.  MatchedPointWidget.remove: the line removed from the scene,
\* the crosshairs taken from their parents and dropped
scene_set_matched_points(scene, item, matched_points) ==
    [lines |-> scene.lines - Len(item.widgets) + Len(matched_points),
     crosshairs |-> scene.crosshairs - 2 * Len(item.widgets) + 2 * Len(matched_points)]

\* the slot calls set_matched_points of the original pixmap item
WidgetsSet ==
    /\ calc # None
    /\ calc.sets < MaxSets
    /\ \E n \in 0..MaxPoints : \E matched_points \in [1..n -> WidgetPoints] :
          calc' = [calc EXCEPT
                     !.item = set_matched_points(@, matched_points),
                     !.scene = scene_set_matched_points(@, calc.item, matched_points),
                     !.points = matched_points,
                     !.before = Len(calc.item.widgets),
                     !.got = None,
                     !.sets = @ + 1]
    /\ step' = Nothing
    /\ UNCHANGED << MainVars, GateVars, threads, WorkflowVars, UiVars, qr, drags, started >>

\* get_matched_points of the same item
WidgetsGet ==
    /\ calc # None
    /\ calc.sets > 0
    /\ calc.got = None
    /\ calc' = [calc EXCEPT !.got = [list |-> item_get_matched_points(calc.img_id, calc.item)]]
    /\ step' = Nothing
    /\ UNCHANGED << MainVars, GateVars, threads, WorkflowVars, UiVars, qr, drags, started >>

\* a sub-image item as SubImage.__init__ creates it
InitWidgets ==
    /\ main_pc = 0
    /\ app_running = TRUE
    /\ stop_event = FALSE
    /\ btn_clicked_cb_map = {}
    /\ task_mutex = FALSE
    /\ task_name = ""
    /\ holder = ""
    /\ threads = [t \in Slots |-> Idle]
    /\ stitcher = None
    /\ board_img = None
    /\ saved_file = None
    /\ ui_queue = << >>
    /\ matched_points_changed_callback = FALSE
    /\ qr = [x \in Imgs |-> 3]
    /\ drags = 0
    /\ started = 0
    /\ step = Nothing
    /\ sub_image_infos = << >>
    /\ sub_image_items = [x \in {} |-> SubImage]
    /\ calc = [img_id |-> "a.png", item |-> SubImage,
               scene |-> [lines |-> 0, crosshairs |-> 0],
               points |-> << >>, before |-> 0, got |-> None, sets |-> 0]

NextWidgets == WidgetsSet \/ WidgetsGet

SpecWidgets == InitWidgets /\ [][NextWidgets]_vars

\* ------------------------------------------------ adding a matched point
\* MainWorkflow._add_new_matched_point, as CalibBoardStitcherUI._add_new_matched_point
\* calls it on the UI thread.  The mean is a Python float: coordinates are
\* held here as fractions num/den in lowest terms.

RECURSIVE GCD(_, _)
GCD(a, b) == IF b = 0 THEN a ELSE GCD(b, a % b)

Frac(num, den) ==
    LET g == GCD(num, den) IN [num |-> num \div g, den |-> den \div g]
FracAdd(f, g) == Frac(f.num * g.den + g.num * f.den, f.den * g.den)
FracDiv(f, n) == Frac(f.num, f.den * n)
FracTimes(f, n) == Frac(f.num * n, f.den)

\* the points an image holds before the handler runs, and where the user
\* clicks
AddCbPoints == { << Frac(1, 1), Frac(1, 1) >>, << Frac(2, 1), Frac(4, 1) >> }
AddClicks == { << Frac(7, 1), Frac(9, 1) >>, << Frac(15, 2), Frac(3, 1) >> }
AddLists(img_id) ==
    UNION { [1..n -> { MatchedPoint(img_id, cb, << Frac(5, 1), Frac(5, 1) >>) :
                          cb \in AddCbPoints }] : n \in 0..2 }

RECURSIVE cb_pos_sum(_, _)
\* the loop: cb_pos = (cb_pos[0] + point.cb_point[0], cb_pos[1] + point.cb_point[1])
cb_pos_sum(cb_pos, matched_points) ==
    IF matched_points = << >> THEN cb_pos
    ELSE cb_pos_sum(<< FracAdd(cb_pos[1], Head(matched_points).cb_point[1]),
                       FracAdd(cb_pos[2], Head(matched_points).cb_point[2]) >>,
                    Tail(matched_points))

\* a new point placed on the first existing one
new_matched_point_on_first(img_id, matched_points, pos) ==
    MatchedPoint(img_id,
                 IF Len(matched_points) > 0 THEN matched_points[1].cb_point
                 ELSE << Frac(0, 1), Frac(0, 1) >>,
                 pos)

\* the point the handler builds: MatchedPoint(img_id, cb_pos, pos)
new_matched_point(img_id, matched_points, pos) ==
    LET zero == << Frac(0, 1), Frac(0, 1) >>
        total == cb_pos_sum(zero, matched_points)
        matched_point_nums == Len(matched_points)
        cb_pos == IF Len(matched_points) > 0
                  THEN << FracDiv(total[1], matched_point_nums),
                          FracDiv(total[2], matched_point_nums) >>
                  ELSE zero
    IN  MatchedPoint(img_id, cb_pos, pos)

\* the handler, the signal it emits delivered at once on the same thread to
\* _set_sub_image_matched_points_slot, then _update_sub_image_slot
AddNewMatchedPoint(img_id, pos) ==
    /\ calc # None
    /\ calc.adds < MaxSets
    /\ LET matched_points == get_sub_image_matched_points(img_id)
           new_list == Append(matched_points, new_matched_point(img_id, matched_points, pos))
       IN  sub_image_items' =
              IF img_id \in DOMAIN sub_image_items
              THEN [sub_image_items EXCEPT
                      ![img_id] = update_sub_image_slot(set_matched_points(@, new_list))]
              ELSE sub_image_items
    /\ calc' = [adds |-> calc.adds + 1, img_id |-> img_id, pos |-> pos]
    /\ step' = Nothing
    /\ UNCHANGED << MainVars, GateVars, threads, WorkflowVars, ui_queue,
                    matched_points_changed_callback, qr, drags, started >>

\* two images shown with their points, the first in edit mode
InitAddPoint ==
    /\ main_pc = 0
    /\ app_running = TRUE
    /\ stop_event = FALSE
    /\ btn_clicked_cb_map = {}
    /\ task_mutex = FALSE
    /\ task_name = ""
    /\ holder = ""
    /\ threads = [t \in Slots |-> Idle]
    /\ stitcher = None
    /\ board_img = None
    /\ saved_file = None
    /\ ui_queue = << >>
    /\ matched_points_changed_callback = FALSE
    /\ qr = [x \in Imgs |-> 3]
    /\ drags = 0
    /\ started = 0
    /\ step = Nothing
    /\ sub_image_infos = ImgOrder
    /\ \E lists \in [Imgs -> UNION { AddLists(x) : x \in Imgs }] :
          /\ \A x \in Imgs : lists[x] \in AddLists(x)
          /\ sub_image_items =
                [x \in Imgs |->
                    switch_to(set_matched_points(SubImage, lists[x]),
                              IF x = ImgOrder[1] THEN SHOW_ORIGINAL_MOVABLE
                              ELSE STATUS_HIDE)]
    /\ calc = [adds |-> 0, img_id |-> "", pos |-> << >>]

NextAddPoint == \E img_id \in Imgs, pos \in AddClicks : AddNewMatchedPoint(img_id, pos)

SpecAddPoint == InitAddPoint /\ [][NextAddPoint]_vars

\* ------------------------------------------------ locks and blocking signals
\* The UI thread and the worker thread as the sequences of lock operations
\* and signal emissions their code performs.  calc holds who has each
\* threading.Lock, what each thread has left to do in the handler or method
\* it is in, and the UI thread's event queue.

\* with lock: ...
with(lock) == << [op |-> "acquire", lock |-> lock], [op |-> "release", lock |-> lock] >>
\* signal.emit(...), through a BlockingQueuedConnection or a default one
emit(signal, blocking) == << [op |-> "emit", signal |-> signal, blocking |-> blocking] >>

UiMethods ==
    { "set_progress_bar_value", "set_calib_board_img", "add_sub_image",
      "set_sub_image_status", "set_sub_image_pos", "set_sub_image_matched_points",
      "get_sub_image_matched_points", "update_transformed_sub_img",
      "select_existing_folder_path", "select_existing_file_path",
      "select_save_file_path" }

\* methods that keep _sub_image_lock while they emit the folder dialog's signal
UiMethodEmitsInside(m) ==
    << [op |-> "acquire", lock |-> "_sub_image_lock"] >>
        \o emit("_select_folder_signal", TRUE)
        \o << [op |-> "release", lock |-> "_sub_image_lock"] >>

\* the methods of CalibBoardStitcherUI the tasks call
UiMethod(m) ==
    CASE m = "set_progress_bar_value" -> emit("_set_progress_bar_value_signal", FALSE)
      [] m = "set_calib_board_img" -> emit("_set_calib_board_img_signal", TRUE)
      [] m = "add_sub_image" -> << [op |-> "raise"] >>
      [] m = "set_sub_image_status" ->
            with("_sub_image_lock") \o emit("_update_sub_image_signal", FALSE)
      [] m = "set_sub_image_pos" -> with("_sub_image_lock")
      [] m = "set_sub_image_matched_points" ->
            emit("_set_sub_image_matched_points_signal", FALSE)
      [] m = "get_sub_image_matched_points" -> with("_sub_image_lock")
      [] m = "update_transformed_sub_img" ->
            with("_sub_image_lock") \o emit("_update_sub_image_signal", FALSE)
      [] m = "select_existing_folder_path" ->
            emit("_select_folder_signal", TRUE) \o with("_select_folder_lock")
      [] m = "select_existing_file_path" ->
            emit("_select_file_signal", TRUE) \o with("_select_file_lock")
      [] m = "select_save_file_path" ->
            emit("_select_save_file_signal", TRUE) \o with("_select_save_file_lock")

\* a slot showing a file dialog inside `with lock:`
DialogSlot(lock) ==
    << [op |-> "acquire", lock |-> lock], [op |-> "dialog"],
       [op |-> "release", lock |-> lock] >>

\* the slots of setupUi
Slot(signal) ==
    CASE signal = "_set_progress_bar_value_signal" -> << >>
      [] signal = "_set_calib_board_img_signal" -> << >>
      [] signal = "_update_sub_image_signal" ->
            \* the item is looked up, then get_sub_image_matched_points for the table
            with("_sub_image_lock") \o UiMethod("get_sub_image_matched_points")
      [] signal = "_set_sub_image_matched_points_signal" -> with("_sub_image_lock")
      [] signal = "_select_folder_signal" -> DialogSlot("_select_folder_lock")
      [] signal = "_select_file_signal" -> DialogSlot("_select_file_lock")
      [] signal = "_select_save_file_signal" -> DialogSlot("_select_save_file_lock")

\* what the user makes the UI thread run
UserEvents == { "_sub_image_selected", "_sub_image_selected_edited" }
UiHandler(event) ==
    CASE event = "_sub_image_selected" -> with("_sub_image_lock")
      [] event = "_sub_image_selected_edited" ->
            \* edit finished: MainWorkflow._matched_point_changed is called
            with("_sub_image_lock") \o UiMethod("update_transformed_sub_img")
                \o UiMethod("set_sub_image_pos")

LockNames ==
    { "_sub_image_lock", "_select_folder_lock", "_select_file_lock",
      "_select_save_file_lock", "_task_mutex" }

InitLocks ==
    /\ main_pc = 1
    /\ app_running = TRUE
    /\ stop_event = FALSE
    /\ btn_clicked_cb_map = {RegisterOrder[k] : k \in 1..Len(RegisterOrder)}
    /\ task_mutex = FALSE
    /\ task_name = ""
    /\ holder = ""
    /\ threads = [t \in Slots |-> Idle]
    /\ stitcher = None
    /\ board_img = None
    /\ saved_file = None
    /\ ui_queue = << >>
    /\ matched_points_changed_callback = FALSE
    /\ qr = [x \in Imgs |-> 3]
    /\ drags = 0
    /\ started = 0
    /\ step = Nothing
    /\ sub_image_infos = ImgOrder
    /\ sub_image_items = [x \in Imgs |-> HiddenSubImage]
    /\ calc = [locks |-> [l \in LockNames |-> "free"],
               ui |-> << >>, worker |-> << >>, alive |-> FALSE, calls |-> 0,
               queue |-> << >>, blocked |-> "no"]

LocksUnchanged ==
    /\ step' = Nothing
    /\ UNCHANGED << MainVars, GateVars, threads, WorkflowVars, UiVars, qr, drags >>

\* MainWorkflow._try_load_task on the UI thread:
\* self._task_mutex.acquire(blocking=False), never a wait
UiTryLoadTask ==
    /\ calc.ui = << >>
    /\ IF calc.locks["_task_mutex"] = "free"
       THEN /\ started < MaxTasks
            /\ started' = started + 1
            /\ calc' = [calc EXCEPT !.locks["_task_mutex"] = "task", !.alive = TRUE,
                                    !.worker = << >>, !.calls = 0]
       ELSE UNCHANGED << calc, started >>
    /\ LocksUnchanged

\* the event loop, idle, takes a user event or the oldest posted signal
UiEvent ==
    /\ calc.ui = << >>
    /\ \/ \E event \in UserEvents : calc' = [calc EXCEPT !.ui = UiHandler(event)]
       \/ /\ calc.queue # << >>
          /\ calc' = [calc EXCEPT
                        !.queue = Tail(@),
                        !.ui = Slot(Head(calc.queue).signal)
                                 \o (IF Head(calc.queue).blocking
                                     THEN << [op |-> "wake"] >> ELSE << >>)]
    /\ UNCHANGED started
    /\ LocksUnchanged

\* the UI thread performs the next operation of the handler it is in
UiOp ==
    /\ calc.ui # << >>
    /\ LET o == Head(calc.ui)
           rest == Tail(calc.ui)
       IN  CASE o.op = "acquire" ->
                  /\ calc.locks[o.lock] = "free"
                  /\ calc' = [calc EXCEPT !.locks[o.lock] = "ui", !.ui = rest]
             [] o.op = "release" ->
                  calc' = [calc EXCEPT !.locks[o.lock] = "free", !.ui = rest]
             [] o.op = "emit" ->
                  \* emitted on the receiver's thread: a default connection calls
                  \* the slot at once, a blocking one never returns
                  /\ ~o.blocking
                  /\ calc' = [calc EXCEPT !.ui = Slot(o.signal) \o rest]
             [] o.op = "dialog" ->
                  calc' = [calc EXCEPT !.ui = rest]
             [] o.op = "wake" ->
                  calc' = [calc EXCEPT !.ui = rest, !.blocked = "done"]
    /\ UNCHANGED started
    /\ LocksUnchanged

\* the task calls a method of the UI
WorkerCall(m) ==
    /\ calc.alive
    /\ calc.worker = << >>
    /\ calc.calls < MaxCalls
    /\ Len(calc.queue) < MaxQueue
    /\ calc' = [calc EXCEPT !.worker = UiMethod(m), !.calls = @ + 1]
    /\ UNCHANGED started
    /\ LocksUnchanged

\* the worker performs the next operation of the method it is in
WorkerOp ==
    /\ calc.alive
    /\ calc.worker # << >>
    /\ LET o == Head(calc.worker)
           rest == Tail(calc.worker)
       IN  CASE o.op = "acquire" ->
                  /\ calc.locks[o.lock] = "free"
                  /\ calc' = [calc EXCEPT !.locks[o.lock] = "worker", !.worker = rest]
             [] o.op = "release" ->
                  calc' = [calc EXCEPT !.locks[o.lock] = "free", !.worker = rest]
             [] o.op = "emit" ->
                  calc' = [calc EXCEPT
                             !.queue = Append(@, [signal |-> o.signal,
                                                  blocking |-> o.blocking]),
                             !.blocked = IF o.blocking THEN "waiting" ELSE @,
                             !.worker = IF o.blocking
                                        THEN << [op |-> "wait"] >> \o rest ELSE rest]
             [] o.op = "wait" ->
                  /\ calc.blocked = "done"
                  /\ calc' = [calc EXCEPT !.blocked = "no", !.worker = rest]
             [] o.op = "raise" ->
                  \* the thread ends in task(): _do_task does not release
                  calc' = [calc EXCEPT !.alive = FALSE, !.worker = << >>]
    /\ UNCHANGED started
    /\ LocksUnchanged

\* task() returns: _do_task releases the gate
WorkerRelease ==
    /\ calc.alive
    /\ calc.worker = << >>
    /\ calc' = [calc EXCEPT !.locks["_task_mutex"] = "free", !.alive = FALSE]
    /\ UNCHANGED started
    /\ LocksUnchanged

NextLocks ==
    \/ UiTryLoadTask
    \/ UiEvent
    \/ UiOp
    \/ \E m \in UiMethods : WorkerCall(m)
    \/ WorkerOp
    \/ WorkerRelease

SpecLocks == InitLocks /\ [][NextLocks]_vars

\* ------------------------------------------------------------------ properties
StitchPcs == {"stitch_box", "stitch_warp", "stitch_save"}

\* C1: at any time at most one task admitted through _try_load_task is
\* running; no second task is started while an admitted one has not finished.
OneTaskAtATime == Cardinality({t \in Slots : Running(t)}) <= 1

\* a button is clicked while an admitted task runs, and no thread is started
OneTaskAtATime_Witness ==
    /\ step.ret = "rejected"
    /\ Cardinality({t \in Slots : Running(t)}) = 1

\* C2: every admitted task eventually ends and releases the gate, also when
\* the task fails: while the application runs, a held gate is released.
AdmittedTaskReleasesGate == task_mutex ~> (~task_mutex \/ ~app_running)

\* C3: a request made while an admitted task holds the gate is rejected: no
\* thread is started, _task_name and all other state stay as they are, and
\* the warning names the task_name given when the holder was admitted.
RejectedRequestChangesNothing ==
    [][step'.ret = "rejected" =>
          /\ step'.warned = holder
          /\ UNCHANGED << MainVars, GateVars, threads, WorkflowVars, UiVars, InputVars >>]_vars

\* a request under another task_name than the holder's has been rejected
RejectedRequestChangesNothing_Witness ==
    /\ step.ret = "rejected"
    /\ step.asked # holder
    /\ step.warned = holder
    /\ task_mutex

Least(S) == CHOOSE x \in S : \A y \in S : x <= y
Greatest(S) == CHOOSE x \in S : \A y \in S : x >= y

\* C9: the union rectangle is l = min floor(left), t = min floor(top),
\* r = max ceil(right), b = max ceil(bottom) over the boxes of the job.
UnionIsFloorMinCeilMax ==
    (calc # None /\ calc.i = Len(calc.boxes)) =>
        LET ks == 1..Len(calc.boxes)
        IN  calc.union =
                [l |-> Least({floor(calc.boxes[k].left) : k \in ks}),
                 t |-> Least({floor(calc.boxes[k].top) : k \in ks}),
                 r |-> Greatest({ceil(calc.boxes[k].right) : k \in ks}),
                 b |-> Greatest({ceil(calc.boxes[k].bottom) : k \in ks})]

\* C10: the canvas is zero-initialised with b - t rows, r - l columns and 3
\* channels.
CanvasHasUnionExtent ==
    (calc # None /\ calc.base_img # None) =>
        calc.base_img = [rows |-> calc.union.b - calc.union.t,
                         cols |-> calc.union.r - calc.union.l,
                         channels |-> 3, fill |-> 0]

\* ---- compositing (step 3)
\* partial j covers canvas pixel p with alpha 255
Covers(j, p) ==
    LET box == calc.boxes[j]
        shape == partial_shape(box, calc.pad)
        py == p[1] + calc.union.t - floor(box.top)
        px == p[2] + calc.union.l - floor(box.left)
    IN  /\ 0 <= py /\ py < shape[1]
        /\ 0 <= px /\ px < shape[2]
        /\ alpha(calc.masks[j], shape, py, px) = 255

\* partial j has a pixel over canvas pixel p, whatever its alpha
Over(j, p) ==
    LET box == calc.boxes[j]
        shape == partial_shape(box, calc.pad)
        py == p[1] + calc.union.t - floor(box.top)
        px == p[2] + calc.union.l - floor(box.left)
    IN  /\ 0 <= py /\ py < shape[1]
        /\ 0 <= px /\ px < shape[2]

\* C11: for every composited partial the clipped region lies inside the
\* canvas, the offsets into the partial are not negative, and the region read
\* from the partial has the height and width of the region written in the
\* canvas.
ClippedRegionsAgree ==
    calc.k >= 1 =>
        /\ 0 <= calc.roi.roi_t /\ calc.roi.roi_t <= calc.roi.roi_b
        /\ calc.roi.roi_b <= calc.base_img.rows - 1
        /\ 0 <= calc.roi.roi_l /\ calc.roi.roi_l <= calc.roi.roi_r
        /\ calc.roi.roi_r <= calc.base_img.cols - 1
        /\ calc.roi.off_t >= 0 /\ calc.roi.off_l >= 0
        /\ calc.roi.read = calc.roi.written

\* C12: a canvas pixel that several of the partials composited so far cover
\* with alpha 255 has the colour of the last of them in list order.
LastWriterWins ==
    (calc.k >= 1 /\ calc.exc = "none") =>
        \A p \in DOMAIN calc.pixels :
            LET C == { j \in 1..calc.k : Covers(j, p) }
            IN  Cardinality(C) >= 2 => calc.pixels[p] = Greatest(C)

LastWriterWins_Witness ==
    /\ calc.k = 2 /\ calc.exc = "none"
    /\ calc.boxes[1] # calc.boxes[2]
    /\ \E p \in DOMAIN calc.pixels :
          /\ Covers(1, p) /\ Covers(2, p)
          /\ calc.prev[p] = 1
          /\ calc.pixels[p] = 2

\* C13: compositing a partial changes only canvas pixels that this partial
\* covers with alpha exactly 255, and a canvas pixel that no partial covers
\* with alpha 255 stays zero.
OnlyCoveredPixelsChange ==
    (calc.k >= 1 /\ calc.exc = "none") =>
        \A p \in DOMAIN calc.pixels :
            /\ calc.pixels[p] # calc.prev[p] => Covers(calc.k, p)
            /\ { j \in 1..calc.k : Covers(j, p) } = {} => calc.pixels[p] = 0

OnlyCoveredPixelsChange_Witness ==
    /\ calc.k = 2 /\ calc.exc = "none"
    /\ \E p, q, z \in DOMAIN calc.pixels :
          /\ Over(2, p) /\ ~Covers(2, p) /\ calc.prev[p] = 1 /\ calc.pixels[p] = 1
          /\ Covers(2, q) /\ calc.pixels[q] = 2
          /\ ~Covers(1, z) /\ ~Covers(2, z) /\ calc.pixels[z] = 0

\* ---- calibration batches
\* C14: in the QR-detection batch an image whose match is empty is skipped
\* without error: no engine stitch call is made for it, its status, position
\* and points in the UI are unchanged, and the loop goes on with the next image.
EmptyMatchIsSkipped ==
    [][\A t \in Slots :
          ( /\ Pc(t) = "detect_loop"
            /\ threads'[t] # threads[t]
            /\ threads[t].i <= Len(sub_image_infos)
            /\ stitcher # None
            /\ Match(stitcher, sub_image_infos[threads[t].i],
                     qr[sub_image_infos[threads[t].i]]) = << >> )
          => ( /\ step'.call = "none"
               /\ step'.exc = "none"
               /\ UNCHANGED UiVars
               /\ threads'[t].pc = "detect_loop"
               /\ threads'[t].i = threads[t].i + 1 )]_vars

EmptyMatchIsSkipped_Witness ==
    \E t \in Slots :
        /\ Pc(t) = "detect_loop"
        /\ threads[t].i = 2
        /\ stitcher # None
        /\ qr[sub_image_infos[1]] = 0
        /\ step = Nothing

\* C15: the loading batch looks at the stop event only between files: a step
\* of the loop taken once the stop event is set handles the file at hand and
\* leaves the loop, so no further file is added, and the task does terminate.
LoadStopsBetweenFiles ==
    /\ [][\A t \in Slots :
             (stop_event /\ Pc(t) = "load_loop" /\ threads'[t] # threads[t])
             => ( /\ threads'[t] = Returned
                  /\ (step'.at = "load_loop" => step'.i = threads[t].i)
                  /\ Len(sub_image_infos') <= Len(sub_image_infos) + 1 )]_vars
    /\ \A t \in Slots :
          (stop_event /\ Pc(t) = "load_loop") ~> (Pc(t) # "load_loop")

LoadStopsBetweenFiles_Witness ==
    \E t \in Slots :
        /\ stop_event
        /\ threads[t] = Returned
        /\ step.at = "load_loop"
        /\ step.i < step.of

RejectedImportAbortsOnlyItself ==
    [][\A t \in Slots :
          /\ ( /\ Pc(t) = "file_dialog"
               /\ step'.at = "file_dialog"
               /\ step'.exc \in {"IOFailure", "CorruptFile"} )
             => ( /\ threads'[t] = Returned
                  /\ stitcher' = stitcher
                  /\ sub_image_items' = sub_image_items
                  /\ ui_queue' = ui_queue
                  /\ sub_image_infos' = sub_image_infos )
          /\ ( /\ threads[t] = Returned
               /\ threads'[t] # threads[t] )
             => ( /\ threads'[t] = Idle
                  /\ ~task_mutex' )]_vars

RejectedImportAbortsOnlyItself_Witness ==
    \E t \in Slots :
        /\ threads[t] = Returned
        /\ step.at = "file_dialog"
        /\ step.exc = "CorruptFile"
        /\ stitcher # None
        /\ \E x \in DOMAIN sub_image_items :
              sub_image_items[x].status = SHOW_TRANSFORMED_LOCKED

\* the points an image holds in the UI once the queued signals are delivered
UiPointsOnceDelivered(img_id) ==
    LET S == { k \in 1..Len(ui_queue) : ui_queue[k].img_id = img_id }
    IN  IF S = {} THEN get_sub_image_matched_points(img_id)
        ELSE ui_queue[Greatest(S)].matched_points

NothingToStitch ==
    \/ stitcher = None
    \/ \A k \in 1..Len(sub_image_infos) :
          Len(get_sub_image_matched_points(sub_image_infos[k])) < 3

\* C19: when nothing can be stitched, stitch_and_save_img returns at once: no
\* engine call is made, nothing raises, the task does not go on to the boxes,
\* the warps or the save dialog and file write, and no state changes.
NothingToStitchReturns ==
    [][\A t \in Slots :
          ( /\ Pc(t) = "stitch"
            /\ threads'[t] # threads[t]
            /\ NothingToStitch )
          => ( /\ threads'[t] = Returned
               /\ step'.call = "none"
               /\ step'.exc = "none"
               /\ UNCHANGED << WorkflowVars, UiVars >> )]_vars

NothingToStitchReturns_Witness ==
    \E t \in Slots :
        /\ threads[t] = Returned
        /\ holder = "Stitch and save img"
        /\ step = Nothing
        /\ stitcher # None
        /\ sub_image_infos # << >>
        /\ NothingToStitch

\* ---- board generation
\* C20: once the generate-board task has ended, the progress values it sent
\* start at 0, never decrease, and end at 100.
ProgressFromZeroToHundred ==
    (calc.pc \in {"returned", "raised"}) =>
        /\ calc.sent # << >>
        /\ calc.sent[1] = 0
        /\ \A k \in 1..(Len(calc.sent) - 1) : calc.sent[k] <= calc.sent[k + 1]
        /\ calc.sent[Len(calc.sent)] = 100

\* ---- CalibResult
\* the CalibResults the workflow holds: the one a running task builds or
\* reads, and the one _save_matched_points wrote
CalibResults ==
    { threads[t].calib_result : t \in { u \in Slots : "calib_result" \in DOMAIN threads[u] } }
        \cup {saved_file}

\* every point in the list keyed by X has img_id X
KeyedByImgId(cr) ==
    cr # None =>
        \A x \in DOMAIN cr.points :
            \A k \in 1..Len(cr.points[x]) : cr.points[x][k].img_id = x

\* C21: in every CalibResult the workflow builds, each point in the list
\* keyed by image X has img_id X, and the points of an image are in the order
\* in which they were added (appended, never dropped): the save takes over the
\* UI's list of each image as it is, and each step of the QR detection appends
\* the image's matches to what the result held.
CalibResultKeepsKeysAndOrder ==
    /\ [](\A cr \in CalibResults : KeyedByImgId(cr))
    /\ [][ /\ saved_file' # saved_file
              => \A k \in 1..Len(sub_image_infos) :
                    get_matched_points(saved_file', sub_image_infos[k])
                        = get_sub_image_matched_points(sub_image_infos[k])
           /\ \A t \in Slots :
                ( /\ Pc(t) = "detect_loop"
                  /\ "calib_result" \in DOMAIN threads'[t]
                  /\ threads[t].calib_result # None
                  /\ threads'[t].i = threads[t].i + 1 )
                => \A x \in Imgs :
                      get_matched_points(threads'[t].calib_result, x)
                          = get_matched_points(threads[t].calib_result, x)
                            \o (IF x = sub_image_infos[threads[t].i]
                                THEN Match(stitcher, x, qr[x]) ELSE << >>) ]_vars

CalibResultKeepsKeysAndOrder_Witness ==
    /\ saved_file # None
    /\ \E x \in DOMAIN saved_file.points :
          /\ Len(saved_file.points[x]) >= 3
          /\ saved_file.points[x] # Match(BoardObj, x, 3)
          /\ saved_file.points[x] = get_sub_image_matched_points(x)

\* C22: load_from_file(save(x)) equals x for every CalibResult x: the same
\* board geometry, and the same points (img_id, cb_point, img_point) under the
\* same images in the original order.
LoadOfSaveIsIdentity ==
    calc.pc = "loaded" =>
        /\ calc.loaded.board = calc.x.board
        /\ get_matched_img_id(calc.loaded) = get_matched_img_id(calc.x)
        /\ \A x \in Imgs :
              get_matched_points(calc.loaded, x) = get_matched_points(calc.x, x)
        /\ calc.loaded = calc.x

LoadOfSaveIsIdentity_Witness ==
    /\ calc.pc = "loaded"
    /\ Len(get_matched_img_id(calc.x)) = 2
    /\ \E x \in Imgs :
          /\ Len(get_matched_points(calc.x, x)) = 2
          /\ get_matched_points(calc.x, x)[1] = get_matched_points(calc.x, x)[2]

\* ---- BoardGeometry
\* C23: for a valid geometry, cell_to_board_point is injective over the
\* cells of the board, its x grows strictly with col and its y strictly
\* with row.
CellPointsInjectiveIncreasing ==
    calc.pc = "points" =>
        /\ calc.pa = << calc.board.qr_border
                          + calc.a[2] * (calc.board.qr_pixel_size + calc.board.qr_border),
                        calc.board.qr_border
                          + calc.a[1] * (calc.board.qr_pixel_size + calc.board.qr_border) >>
        /\ calc.a # calc.b => calc.pa # calc.pb
        /\ calc.a[2] < calc.b[2] => calc.pa[1] < calc.pb[1]
        /\ calc.a[1] < calc.b[1] => calc.pa[2] < calc.pb[2]

CellPointsInjectiveIncreasing_Witness ==
    /\ calc.pc = "points"
    /\ calc.board.qr_border = 0
    /\ calc.a[1] < calc.b[1]
    /\ calc.a[2] > calc.b[2]

\* ---- transform estimation
\* C24: a stitch call given fewer than 3 correspondences fails with
\* InsufficientMatchedPoints, one given 3 or more correspondences that lie on
\* one line fails with DegenerateGeometry, and a failed call returns no
\* partial image and no box.
EstimationFailures ==
    calc.pc = "partial" =>
        LET ps == calc.points
            n == Len(ps)
            on_one_line ==
                \A i, j, k \in 1..n :
                    /\ Cross(ps[i].img_point, ps[j].img_point, ps[k].img_point) = 0
                    /\ Cross(ps[i].cb_point, ps[j].cb_point, ps[k].cb_point) = 0
        IN  /\ n < 3 => /\ calc.gen.exc = "InsufficientMatchedPoints"
                        /\ calc.calc_box.exc = "InsufficientMatchedPoints"
            /\ (n >= 3 /\ on_one_line) => /\ calc.gen.exc = "DegenerateGeometry"
                                          /\ calc.calc_box.exc = "DegenerateGeometry"
            /\ calc.gen.exc # "none" => (calc.gen.partial = None /\ calc.gen.box = None)
            /\ calc.calc_box.exc # "none" => calc.calc_box.box = None

EstimationFailures_Witness ==
    /\ calc.pc = "partial"
    /\ Len(calc.points) = 3
    /\ Cardinality({ calc.points[k] : k \in 1..3 }) = 3
    /\ calc.gen.exc = "DegenerateGeometry"
    /\ calc.gen.box = None

\* ---- canvas and placement
\* C25: the two stitch operations return the same box for the same
\* arguments, so the canvas sized from the boxes of step 2.1 contains the
\* placement of every partial of step 3: its columns floor(left)..ceil(right)
\* and its rows floor(top)..ceil(bottom), taken relative to (l, t).
CanvasContainsPlacement ==
    (calc.base_img # None /\ calc.k >= 1) =>
        LET box == calc.boxes[calc.k]
            box_l == floor(box.left) - calc.union.l
            box_r == ceil(box.right) - calc.union.l
            box_t == floor(box.top) - calc.union.t
            box_b == ceil(box.bottom) - calc.union.t
        IN  /\ 0 <= box_l
            /\ box_r <= calc.base_img.cols
            /\ 0 <= box_t
            /\ box_b <= calc.base_img.rows

\* ---- loading sub-images
\* C26: in the loading batch a failure on one file is logged and only that
\* file is skipped: the registrations stay as they were, the loop goes on with
\* the next file, and a file name becomes a key of _sub_image_infos exactly
\* when adding it to the UI and setting its status both succeeded.
LoadFailureSkipsOneFile ==
    [][\A t \in Slots :
          (Pc(t) = "load_loop" /\ threads'[t] # threads[t]) =>
              LET i == threads[t].i
                  file_name == FolderFiles[i]
                  failed == step'.exc # "none"
              IN  /\ failed => /\ step'.at = "load_loop"
                               /\ step'.i = i
                               /\ sub_image_infos' = sub_image_infos
                               /\ sub_image_items' = sub_image_items
                  /\ (~stop_event /\ i < Len(FolderFiles)) =>
                        threads'[t] = [pc |-> "load_loop", i |-> i + 1]
                  /\ InInfos(file_name)' <=>
                        ( /\ ~failed
                          /\ file_name \in DOMAIN sub_image_items'
                          /\ sub_image_items'[file_name].status = STATUS_HIDE )
                  /\ \A k \in (i + 1)..Len(FolderFiles) : ~InInfos(FolderFiles[k])'
                  /\ \A k \in 1..(i - 1) : InInfos(FolderFiles[k])' <=> InInfos(FolderFiles[k])
      ]_vars

LoadFailureSkipsOneFile_Witness ==
    \E t \in Slots :
        /\ threads[t] = [pc |-> "load_loop", i |-> 2]
        /\ step.exc = "AttributeError"
        /\ step.at = "load_loop"
        /\ step.i = 1
        /\ ~InInfos(FolderFiles[1])

\* C27: when the loading task has gone through the folder without being
\* cancelled, every file name of the folder is registered as a sub-image,
\* in the UI's _sub_image_items and in the workflow's _sub_image_infos.
LoadRegistersEveryFile ==
    [][\A t \in Slots :
          ( /\ Pc(t) = "load_loop"
            /\ threads'[t] = Returned
            /\ ~stop_event )
          => \A k \in 1..Len(FolderFiles) :
                /\ InInfos(FolderFiles[k])'
                /\ FolderFiles[k] \in DOMAIN sub_image_items'
      ]_vars

OneImageInEditMode ==
    Cardinality({ x \in DOMAIN sub_image_items :
                    sub_image_items[x].status = SHOW_ORIGINAL_MOVABLE }) <= 1

\* an image in edit mode while a worker task has put another on show
OneImageInEditMode_Witness ==
    \E x, y \in DOMAIN sub_image_items :
        /\ sub_image_items[x].status = SHOW_ORIGINAL_MOVABLE
        /\ sub_image_items[y].status = SHOW_TRANSFORMED_LOCKED
        /\ \E t \in Slots : Pc(t) \in {"file_loop", "detect_loop"}

\* C31: selecting a sub-image follows a state machine.  An image goes into
\* SHOW_ORIGINAL_MOVABLE only from SHOW_TRANSFORMED_LOCKED, every other image
\* is then HIDE and no points-changed callback is invoked; a step of the UI
\* thread that takes an image out of SHOW_ORIGINAL_MOVABLE without putting
\* another one into it leaves every image in SHOW_TRANSFORMED_LOCKED and
\* invokes the callback exactly once, with that image and the points it
\* held; no other step of the UI thread changes a status or invokes the
\* callback.
SelectionStateMachine ==
    [][LET ids == DOMAIN sub_image_items
           status(x) == sub_image_items[x].status
           entered == { x \in ids : /\ status(x) # SHOW_ORIGINAL_MOVABLE
                                    /\ status(x)' = SHOW_ORIGINAL_MOVABLE }
           left == { x \in ids : /\ status(x) = SHOW_ORIGINAL_MOVABLE
                                 /\ status(x)' # SHOW_ORIGINAL_MOVABLE }
           ui_step == threads' = threads
       IN  (DOMAIN sub_image_items' = ids) =>
           /\ \A x \in entered :
                 /\ status(x) = SHOW_TRANSFORMED_LOCKED
                 /\ \A y \in ids \ {x} : status(y)' = STATUS_HIDE
                 /\ step'.cb = << >>
           /\ step'.cb # << >> =>
                 /\ Len(step'.cb) = 1
                 /\ step'.cb[1][1] \in left
                 /\ step'.cb[1][2] = get_sub_image_matched_points(step'.cb[1][1])
                 /\ \A y \in ids : status(y)' = SHOW_TRANSFORMED_LOCKED
           /\ (ui_step /\ left # {} /\ entered = {}) => step'.cb # << >>
           /\ (ui_step /\ \E y \in ids : status(y)' # status(y)) =>
                 (entered # {} \/ left # {})
      ]_vars

SelectionStateMachine_Witness ==
    /\ Len(step.cb) = 1
    /\ drags = 1
    /\ \E k \in 1..Len(step.cb[1][2]) : step.cb[1][2][k].cb_point \in DragTargets
    /\ \A y \in DOMAIN sub_image_items :
          sub_image_items[y].status = SHOW_TRANSFORMED_LOCKED

\* ---- matched point widgets
\* C33: after set_matched_points(points) on a sub-image item,
\* get_matched_points returns a list as long as points whose i-th element has
\* the cb_point and img_point of points[i] and the item's own img_id, and
\* the widgets of the list set before are gone: the item holds one widget
\* per point, the scene one line and two crosshairs per point.
GetAfterSetMatchedPoints ==
    (calc.sets > 0 /\ calc.got # None) =>
        /\ Len(calc.got.list) = Len(calc.points)
        /\ \A k \in 1..Len(calc.points) :
              /\ calc.got.list[k].cb_point = calc.points[k].cb_point
              /\ calc.got.list[k].img_point = calc.points[k].img_point
              /\ calc.got.list[k].img_id = calc.img_id
        /\ Len(calc.item.widgets) = Len(calc.points)
        /\ calc.scene.lines = Len(calc.points)
        /\ calc.scene.crosshairs = 2 * Len(calc.points)

GetAfterSetMatchedPoints_Witness ==
    /\ calc.sets = 2
    /\ calc.before = 3
    /\ calc.got # None
    /\ Len(calc.points) = 2
    /\ calc.points[1].img_id # calc.img_id
    /\ calc.got.list[1].img_id = calc.img_id

\* ---- adding a matched point
\* C32: adding a matched point to an image appends exactly one point to the
\* image's list: its img_point is the clicked position, its cb_point the
\* arithmetic mean of the cb_points of the points already there, or (0, 0)
\* when there are none; the points already there keep their values and
\* order, and the points of the other images are unchanged.
AddAppendsMeanPoint ==
    [][\A img_id \in Imgs :
          (calc'.adds = calc.adds + 1 /\ calc'.img_id = img_id) =>
          LET old == get_sub_image_matched_points(img_id)
              new == get_sub_image_matched_points(img_id)'
              n == Len(old)
              added == new[n + 1]
          IN  /\ Len(new) = n + 1
              /\ SubSeq(new, 1, n) = old
              /\ added.img_id = img_id
              /\ added.img_point = calc'.pos
              /\ n = 0 => added.cb_point = << Frac(0, 1), Frac(0, 1) >>
              /\ n > 0 => \A c \in 1..2 :
                    FracTimes(added.cb_point[c], n)
                        = cb_pos_sum(<< Frac(0, 1), Frac(0, 1) >>, old)[c]
              /\ \A x \in Imgs \ {img_id} :
                    get_sub_image_matched_points(x)' = get_sub_image_matched_points(x)
      ]_vars

AddAppendsMeanPoint_Witness ==
    /\ calc.adds = 1
    /\ Len(get_sub_image_matched_points(calc.img_id)) = 3
    /\ get_sub_image_matched_points(calc.img_id)[3].cb_point = << Frac(3, 2), Frac(5, 2) >>
    /\ get_sub_image_matched_points(calc.img_id)[3].img_point = calc.pos

\* ---- button callbacks
\* C34: a click on a button for which _main registered a callback ends either
\* with an admitted task or with a rejection and its warning; no registered
\* callback raises an exception on the UI thread.
RegisteredClickAdmitsOrRejects ==
    step.ret \notin {"none", "not set"} =>
        /\ \/ step.ret = "admitted" /\ step.warned = ""
           \/ step.ret = "rejected" /\ step.warned # ""
        /\ step.exc = "none"

\* C35: a click on a button whose event has no registered callback (before
\* _main has registered its callbacks, or an event _main never registers,
\* such as CLEAR_CALIB_RESULT_BTN_CLICKED) only logs the "not set" warning:
\* no task is started, the gate is not taken and no state changes.
UnregisteredClickOnlyWarns ==
    [][\A event \in ButtonClickedEvent :
          (event \notin btn_clicked_cb_map /\ BtnClicked(event)) =>
              /\ step' = Clicked("not set", "", "")
              /\ UNCHANGED << MainVars, GateVars, threads, WorkflowVars, UiVars,
                              qr, drags, calc, started >>
      ]_vars

\* the warning is logged for a click made while the callbacks are registered
\* and a task holds the gate
UnregisteredClickOnlyWarns_Witness ==
    /\ step.ret = "not set"
    /\ btn_clicked_cb_map # {}
    /\ task_mutex
    /\ \E t \in Slots : Running(t)

\* ---- locks
\* the worker is inside a blocking emit, waiting for the UI thread's slot
WorkerBlockedOnUi == calc.worker # << >> /\ Head(calc.worker).op = "wait"
\* a thread is at an acquire of a lock that `who` holds
WaitsForLockOf(todo, who) ==
    /\ todo # << >>
    /\ Head(todo).op = "acquire"
    /\ calc.locks[Head(todo).lock] = who

\* C36: the UI thread and a worker never deadlock: the worker never holds
\* _sub_image_lock while it is blocked on the UI thread, the UI thread never
\* waits for a lock while it holds _sub_image_lock, never waits for the
\* admission gate and never blocks on its own event loop, and the two threads
\* never wait for each other.
NeverDeadlock ==
    /\ WorkerBlockedOnUi => calc.locks["_sub_image_lock"] # "worker"
    /\ \A who \in {"ui", "worker", "task"} :
          WaitsForLockOf(calc.ui, who) =>
              /\ calc.locks["_sub_image_lock"] # "ui"
              /\ Head(calc.ui).lock # "_task_mutex"
              /\ who = "worker"
    /\ \A k \in 1..Len(calc.ui) :
          /\ calc.ui[k].op = "emit" => ~calc.ui[k].blocking
          /\ calc.ui[k].op = "acquire" => calc.ui[k].lock # "_task_mutex"
    /\ ~WaitsForLockOf(calc.worker, "worker")
    /\ ~(WaitsForLockOf(calc.ui, "worker")
            /\ (WorkerBlockedOnUi \/ WaitsForLockOf(calc.worker, "ui")))

\* the worker is blocked in select_save_file_path while the UI thread shows
\* the dialog inside `with self._select_save_file_lock`
NeverDeadlock_Witness ==
    /\ WorkerBlockedOnUi
    /\ calc.blocked = "waiting"
    /\ calc.ui # << >>
    /\ Head(calc.ui).op = "dialog"
    /\ calc.locks["_select_save_file_lock"] = "ui"
    /\ calc.locks["_task_mutex"] = "task"

\* ---- termination
\* C37: once the UI event loop has exited the stop event is set, and the
\* workflow's main thread then leaves its wait loop and terminates; before
\* the stop event is set that thread never terminates.
MainThreadEndsAfterStop ==
    /\ [](~app_running => stop_event)
    /\ [](main_pc = 2 => stop_event)
    /\ [](stop_event => <>(main_pc = 2))

\* the thread has terminated after the exit, a worker thread still running
MainThreadEndsAfterStop_Witness ==
    /\ main_pc = 2
    /\ stop_event
    /\ ~app_running
    /\ \E t \in Slots : Running(t)

====
